---- MODULE Spec2Model ----
(***************************************************************************)
(* Model of the multi-agent research engine of THE_y-it_PRO:               *)
(*   - LLMClient.generateContentWithRetry (retry / backoff wrapper)        *)
(*   - BaseAgent.executeSearch (one agent's service call)                  *)
(*   - ResearchCoordinator.execute (fan-out, settle-all, synthesis,        *)
(*     fence stripping, JSON parsing and schema validation)                *)
(* JavaScript runs every continuation to completion, so one action is one  *)
(* event-loop task: the delivery of a response, of an error or of a timer, *)
(* together with everything the code does before it suspends again.        *)
(***************************************************************************)
EXTENDS Integers, Sequences, FiniteSets, TLC

(***************************************************************************)
(* Program constants                                                       *)
(***************************************************************************)
NumAgents == 4
DefaultRetries == 3
DefaultDelay == 2000

(***************************************************************************)
(* Bounds of the model                                                     *)
(***************************************************************************)
MaxRetriesArg == 3
MaxSummaryLen == 4
MaxTextLen == 7
MaxChapters == 2
MaxQuotes == 1

Agents == 1..NumAgents
SynthCall == 0
DirectCall == NumAgents + 1
DraftCall == NumAgents + 2
CallIds == 0..(NumAgents + 2)

(* agent.name of the four agents, in the order of this.agents *)
AgentName(i) ==
  CASE i = 1 -> "Detective"
    [] i = 2 -> "Auditor"
    [] i = 3 -> "Insider"
    [] OTHER -> "Statistician"

NoArg == -1
RetryArgs == {NoArg} \cup (0..MaxRetriesArg)
DelayArgs == {NoArg, 1, 500}

(***************************************************************************)
(* Errors thrown by client.models.generateContent.  status = 0 stands for  *)
(* an absent error.status, respStatus = 0 for an absent error.response,    *)
(* msg is error.message as a sequence of words (<<>> when absent); at is   *)
(* the attempt that raised the error (its identity).                       *)
(***************************************************************************)
Statuses == {0, 400, 403, 429, 500, 503}
RespStatuses == {0, 403, 500}
Messages == {<<>>, <<"rate", "limit">>, <<"error", "403">>, <<"permission", "denied">>}

ErrorKinds == [status : Statuses, respStatus : RespStatuses, msg : Messages]
CoordErrorKinds ==
  { [status |-> 403, respStatus |-> 0, msg |-> <<>>],
    [status |-> 429, respStatus |-> 0, msg |-> <<"rate", "limit">>] }

NoErr == [status |-> -1, respStatus |-> -1, msg |-> <<>>, at |-> 0]
MkErr(k, n) == [status |-> k.status, respStatus |-> k.respStatus, msg |-> k.msg, at |-> n]

Includes(msg, w) == \E j \in 1..Len(msg) : msg[j] = w

ErrStatus(e) == IF e.status # 0 THEN e.status ELSE e.respStatus

(* IsPermissionError that looks at the status only *)
IsPermissionError_StatusOnly(e) == ErrStatus(e) = 403

IsPermissionError(e) ==
  ErrStatus(e) = 403 \/ Includes(e.msg, "403") \/ Includes(e.msg, "permission")

IsFatal(e) == IsPermissionError(e) \/ ErrStatus(e) = 400

(***************************************************************************)
(* Responses: text is a sequence of tokens, <<>> when the response carries *)
(* no text.  "<bt>" stands for one backtick character, "json" for the four *)
(* letters json, "<nl>" for white space, "x" for any other character of a  *)
(* string; the remaining tokens are runs of text without backticks:        *)
(* "{research}" a complete research object, "{research:" the same object   *)
(* up to the opening quote of its summary string and ":end}" its closing   *)
(* quote and brace, so that <<"{research:", s..., ":end}">> is the object  *)
(* whose summary holds the characters s.                                   *)
(***************************************************************************)
NoResp == [text |-> <<"?">>]
AgentTexts == {<<"findings">>, <<>>}

Fence == <<"<bt>", "<bt>", "<bt>">>
FenceJson == Fence \o <<"json">>

(* a text wrapped in a markdown json code block *)
Fenced(text) == FenceJson \o <<"<nl>">> \o text \o <<"<nl>">> \o Fence

SynthTexts ==
  { <<"{research}">>,
    Fenced(<<"{research}">>),
    <<"{research:", "x", "<bt>", "<bt>", "<bt>", "json", ":end}">>,
    <<"not json">>,
    <<>>,
    <<"{partial}">>,
    FenceJson \o <<"{badtypes}">> \o Fence }

(***************************************************************************)
(* generateContentWithRetry: one record per call in progress.              *)
(***************************************************************************)
IdleCall ==
  [pc |-> "idle", retries |-> 0, delay |-> 0, attempts |-> 0,
   waits |-> <<>>, warnings |-> 0, err |-> NoErr, resp |-> NoResp]

(* StartCall with other defaults: one retry, a first delay of 1000 *)
StartCall_OtherDefaults(retriesArg, delayArg) ==
  [pc |-> "attempting",
   retries |-> IF retriesArg = NoArg THEN 1 ELSE retriesArg,
   delay |-> IF delayArg = NoArg THEN 1000 ELSE delayArg,
   attempts |-> 1, waits |-> <<>>, warnings |-> 0, err |-> NoErr, resp |-> NoResp]

StartCall(retriesArg, delayArg) ==
  [pc |-> "attempting",
   retries |-> IF retriesArg = NoArg THEN DefaultRetries ELSE retriesArg,
   delay |-> IF delayArg = NoArg THEN DefaultDelay ELSE delayArg,
   attempts |-> 1, waits |-> <<>>, warnings |-> 0, err |-> NoErr, resp |-> NoResp]

OnSuccess(c, r) == [c EXCEPT !.pc = "returned", !.resp = r]

(* OnFailure with the retry test before the classification: a fatal error  *)
(* is retried while retries remain                                         *)
OnFailure_RetryFatal(c, e) ==
  IF c.retries > 0
    THEN [c EXCEPT !.pc = "waiting", !.err = e,
                   !.warnings = @ + 1, !.waits = Append(@, c.delay)]
    ELSE [c EXCEPT !.pc = "thrown", !.err = e]

(* OnFailure that retries only the errors carrying a status                *)
OnFailure_UnknownIsFatal(c, e) ==
  IF IsFatal(e) \/ ErrStatus(e) = 0
    THEN [c EXCEPT !.pc = "thrown", !.err = e]
    ELSE IF c.retries > 0
      THEN [c EXCEPT !.pc = "waiting", !.err = e,
                     !.warnings = @ + 1, !.waits = Append(@, c.delay)]
      ELSE [c EXCEPT !.pc = "thrown", !.err = e]

(* OnFailure that, out of retries, throws the first error it has seen      *)
OnFailure_ThrowFirst(c, e) ==
  IF IsFatal(e)
    THEN [c EXCEPT !.pc = "thrown", !.err = e]
    ELSE IF c.retries > 0
      THEN [c EXCEPT !.pc = "waiting", !.err = IF c.err.at = 0 THEN e ELSE c.err,
                     !.warnings = @ + 1, !.waits = Append(@, c.delay)]
      ELSE [c EXCEPT !.pc = "thrown", !.err = IF c.err.at = 0 THEN e ELSE c.err]

(* OnFailure that treats a fatal error as fatal at the first attempt only  *)
OnFailure_FatalFirstOnly(c, e) ==
  IF IsFatal(e) /\ c.attempts = 1
    THEN [c EXCEPT !.pc = "thrown", !.err = e]
    ELSE IF c.retries > 0
      THEN [c EXCEPT !.pc = "waiting", !.err = e,
                     !.warnings = @ + 1, !.waits = Append(@, c.delay)]
      ELSE [c EXCEPT !.pc = "thrown", !.err = e]

(* OnFailure with retries >= 0 for retries > 0: one attempt too many *)
OnFailure_OffByOne(c, e) ==
  IF IsFatal(e)
    THEN [c EXCEPT !.pc = "thrown", !.err = e]
    ELSE IF c.retries >= 0
      THEN [c EXCEPT !.pc = "waiting", !.err = e,
                     !.warnings = @ + 1, !.waits = Append(@, c.delay)]
      ELSE [c EXCEPT !.pc = "thrown", !.err = e]

(* OnFailure that also warns when it gives up, out of retries *)
OnFailure_WarnOnThrow(c, e) ==
  IF IsFatal(e)
    THEN [c EXCEPT !.pc = "thrown", !.err = e]
    ELSE IF c.retries > 0
      THEN [c EXCEPT !.pc = "waiting", !.err = e,
                     !.warnings = @ + 1, !.waits = Append(@, c.delay)]
      ELSE [c EXCEPT !.pc = "thrown", !.err = e, !.warnings = @ + 1]

OnFailure(c, e) ==
  IF IsFatal(e)
    THEN [c EXCEPT !.pc = "thrown", !.err = e]
    ELSE IF c.retries > 0
      THEN [c EXCEPT !.pc = "waiting", !.err = e,
                     !.warnings = @ + 1, !.waits = Append(@, c.delay)]
      ELSE [c EXCEPT !.pc = "thrown", !.err = e]

(* OnTimer whose recursive call is never made: the wait ends and the call  *)
(* neither attempts again nor throws                                       *)
OnTimer_Lost(c) == [c EXCEPT !.pc = "lost"]

(* OnTimer without the doubling of the delay                               *)
OnTimer_NoBackoff(c) ==
  [c EXCEPT !.pc = "attempting", !.retries = @ - 1, !.attempts = @ + 1]

OnTimer(c) ==
  [c EXCEPT !.pc = "attempting", !.retries = @ - 1, !.delay = @ * 2,
            !.attempts = @ + 1]

VARIABLES call, argRetries, argDelay,
          execPc, launched, agentStates, task, runOutcome,
          reports, synthCalls, synthText, execResult,
          draftPc, draftCalls, draftText, draftResult,
          instance, constructed, llmOf, clientOf,
          caught, lastEmitted, emitCount,
          runPc, runTask, heap, delivered,
          settings, draftPrompt,
          podPc, podBook, podSettings, podHasCallback, podSegments, podIdx,
          podProgress, podResult

vars == <<call, argRetries, argDelay, execPc, launched, agentStates, task,
          runOutcome, reports, synthCalls, synthText, execResult,
          draftPc, draftCalls, draftText, draftResult,
          instance, constructed, llmOf, clientOf,
          caught, lastEmitted, emitCount,
          runPc, runTask, heap, delivered,
          settings, draftPrompt,
          podPc, podBook, podSettings, podHasCallback, podSegments, podIdx,
          podProgress, podResult>>

(* settings: the GenSettings argument of generateDraft; draftPrompt: the    *)
(* contents of the request it issued, line by line                         *)
draftInput == <<settings, draftPrompt>>

draftVars == <<draftPc, draftCalls, draftText, draftResult, draftInput>>

singletonVars == <<instance, constructed, llmOf, clientOf>>

(* caught[i]: the error the catch block of agent i's task received (line   *)
(* 189, which logs it and lets it go); recorded by AgentErrorTraced only   *)
traceVars == <<caught>>

(* two calls of execute on one coordinator: runPc[r] is the position of    *)
(* call r, runTask[r][i] that of its task for agent i, heap the AgentState *)
(* objects by reference, delivered[r] the array of references passed to    *)
(* the latest onProgress call of call r                                    *)
runsVars == <<runPc, runTask, heap, delivered>>

(* a call of PodcastService.generatePodcast: its arguments (podBook,       *)
(* podSettings, podHasCallback), the segments array, the loop index of     *)
(* line 87 (from 1), the arguments of the latest onProgress call and what  *)
(* the call resolved or rejected with                                      *)
podVars == <<podPc, podBook, podSettings, podHasCallback, podSegments, podIdx,
             podProgress, podResult>>

auxVars == <<draftVars, singletonVars, traceVars, runsVars, podVars>>

(* what the steps of generateDraft, and those of the singleton, leave alone *)
besideDraft == <<singletonVars, traceVars, runsVars, podVars>>

besideSingleton == <<draftVars, traceVars, runsVars, podVars>>

besideTrace == <<draftVars, singletonVars, runsVars, podVars>>

(* lastEmitted: the statuses shown by the array of the latest onProgress   *)
(* call, at the time of that call; emitCount: the number of onProgress     *)
(* calls of the run so far                                                 *)
emitVars == <<lastEmitted, emitCount>>

coordVars == <<execPc, launched, agentStates, task, runOutcome,
               reports, synthCalls, synthText, execResult, emitVars>>

(* onProgress([...agentStates]) *)
Emit(states) ==
  /\ lastEmitted' = states
  /\ emitCount' = emitCount + 1

(***************************************************************************)
(* BaseAgent.executeSearch and the reports of ResearchCoordinator.execute  *)
(***************************************************************************)
NoReport == [kind |-> "none", who |-> "", body |-> <<>>]
TextReport(t) == [kind |-> "text", who |-> "", body |-> t]
NoDataReport(name) == [kind |-> "nodata", who |-> name, body |-> <<>>]
ErrorPlaceholder(name) == [kind |-> "error", who |-> name, body |-> <<>>]
CrashReport(name) == [kind |-> "crash", who |-> name, body |-> <<>>]

(* ExecuteSearchResult without the fallback: the text is returned as it is *)
ExecuteSearchResult_NoFallback(i, r) == TextReport(r.text)

ExecuteSearchResult(i, r) ==
  IF r.text # <<>> THEN TextReport(r.text) ELSE NoDataReport(AgentName(i))

(***************************************************************************)
(* The synthesis request, lines 204-224: the four reports are destructured *)
(* by position and written under fixed labels, in this order.              *)
(***************************************************************************)
SectionLabel(i) ==
  CASE i = 1 -> "DETECTIVE REPORT"
    [] i = 2 -> "AUDITOR REPORT"
    [] i = 3 -> "INSIDER REPORT"
    [] OTHER -> "STATISTICIAN REPORT"

RawForensicData(reps) ==
  [i \in Agents |-> [label |-> SectionLabel(i), report |-> reps[i]]]

(***************************************************************************)
(* Synthesis output: fence stripping, JSON.parse, ResearchDataSchema.parse *)
(***************************************************************************)
ResearchFields ==
  {"summary", "ethicalRating", "profitPotential", "marketStats",
   "hiddenCosts", "caseStudies", "affiliates"}

BookFields == {"title", "subtitle", "frontCover", "backCover", "chapters"}

StripToken(text, tok) == SelectSeq(text, LAMBDA t : t # tok)

SynthTextOrDefault(r) == IF r.text # <<>> THEN r.text ELSE <<"{}">>

(* String.prototype.replace(/pat/g, ''): the matches are found from left   *)
(* to right in the original text, never overlapping, and removed.          *)
RECURSIVE ReplaceAll(_, _)
ReplaceAll(text, pat) ==
  IF text = <<>> THEN <<>>
  ELSE IF Len(text) >= Len(pat) /\ SubSeq(text, 1, Len(pat)) = pat
    THEN ReplaceAll(SubSeq(text, Len(pat) + 1, Len(text)), pat)
    ELSE <<Head(text)>> \o ReplaceAll(Tail(text), pat)

CleanText(text) == ReplaceAll(ReplaceAll(text, FenceJson), Fence)

JsonTokens ==
  {"{research}", "{partial}", "{badtypes}", "{}",
   "{book}", "{bookpartial}", "{bookbadtypes}"}

StringChars == {"<bt>", "json", "x"}

(* summary: the characters of the summary string, as far as they are told  *)
(* apart here (<<>> for the summary of the one-token objects)              *)
JsonValue(tok) ==
  CASE tok = "{research}" -> [fields |-> ResearchFields, typed |-> TRUE, summary |-> <<>>]
    [] tok = "{badtypes}" -> [fields |-> ResearchFields, typed |-> FALSE, summary |-> <<>>]
    [] tok = "{partial}" ->
         [fields |-> {"summary", "marketStats"}, typed |-> TRUE, summary |-> <<>>]
    [] tok = "{book}" -> [fields |-> BookFields, typed |-> TRUE, summary |-> <<>>]
    [] tok = "{bookbadtypes}" -> [fields |-> BookFields, typed |-> FALSE, summary |-> <<>>]
    [] tok = "{bookpartial}" ->
         [fields |-> {"title", "chapters"}, typed |-> TRUE, summary |-> <<>>]
    [] OTHER -> [fields |-> {}, typed |-> TRUE, summary |-> <<>>]

NoValue == [fields |-> {"<none>"}, typed |-> FALSE, summary |-> <<>>]

(* JSON.parse accepts white space around the value, nothing else *)
JsonParses(text) ==
  LET sig == StripToken(text, "<nl>")
  IN \/ Len(sig) = 1 /\ sig[1] \in JsonTokens
     \/ /\ Len(sig) >= 2
        /\ sig[1] = "{research:" /\ sig[Len(sig)] = ":end}"
        /\ \A j \in 2..(Len(sig) - 1) : sig[j] \in StringChars

JsonParse(text) ==
  LET sig == StripToken(text, "<nl>")
  IN IF Len(sig) = 1
       THEN JsonValue(sig[1])
       ELSE [fields |-> ResearchFields, typed |-> TRUE,
             summary |-> SubSeq(sig, 2, Len(sig) - 1)]

SchemaAccepts(v) == ResearchFields \subseteq v.fields /\ v.typed

SchemaParse(v) ==
  [fields |-> v.fields \cap ResearchFields, typed |-> v.typed, summary |-> v.summary]

NoResult == [kind |-> "none", value |-> NoValue, err |-> NoErr]

(* line 297: new Error("Failed to validate research data structure."), an  *)
(* error without status and without response                               *)
ValidationFailure ==
  [status |-> 0, respStatus |-> 0,
   msg |-> <<"Failed", "to", "validate", "research", "data", "structure.">>,
   at |-> 0]

(* ParseAndValidate that skips the schema: whatever parses is returned     *)
ParseAndValidate_NoSchema(text) ==
  LET clean == CleanText(text)
  IN IF JsonParses(clean)
       THEN [kind |-> "value", value |-> JsonParse(clean), err |-> NoErr]
       ELSE [kind |-> "validationError", value |-> NoValue, err |-> ValidationFailure]

ParseAndValidate(text) ==
  LET clean == CleanText(text)
  IN IF JsonParses(clean) /\ SchemaAccepts(JsonParse(clean))
       THEN [kind |-> "value", value |-> SchemaParse(JsonParse(clean)), err |-> NoErr]
       ELSE [kind |-> "validationError", value |-> NoValue, err |-> ValidationFailure]

(***************************************************************************)
(* The catch block of an agent task (status FAILED, emit, placeholder).    *)
(* cbThrows: the onProgress call inside it throws.                         *)
(***************************************************************************)
CatchBlock(i, cbThrows) ==
  IF cbThrows
    THEN [pc |-> "rejected", value |-> NoReport]
    ELSE [pc |-> "fulfilled", value |-> ErrorPlaceholder(AgentName(i))]

Settled(t) == t.pc \in {"fulfilled", "rejected"}

Busy == \E i \in Agents : task[i].pc = "catching"

(***************************************************************************)
(* LLMClient.getInstance and the components that hold the shared client.   *)
(* An LLMClient is told apart by the number of the constructor run that    *)
(* made it, and so is the GoogleGenAI client that run created.             *)
(***************************************************************************)
Holders == {"Coordinator", "Detective", "Auditor", "Insider", "Statistician", "Author"}

NoInstance == [id |-> 0, client |-> 0]

NewLLMClient(n) == [id |-> n, client |-> n]

(* the calls of execute that overlap *)
Runs == {"first", "second"}

(* the AgentState objects line 176 creates: new ones at every call *)
StateRef_Shared(r, i) == <<"first", i>>

StateRef(r, i) == <<r, i>>

Refs == Runs \X Agents

NoObject == [name |-> "", status |-> "unallocated"]

NoProgress == [value |-> 0, status |-> ""]

NoPodcast == [kind |-> "none", segments |-> <<>>]

AuxInitBesideSettings ==
  /\ podPc = "idle"
  /\ podBook = <<>>
  /\ podSettings = [tier |-> "BASIC"]
  /\ podHasCallback = FALSE
  /\ podSegments = <<>>
  /\ podIdx = 0
  /\ podProgress = NoProgress
  /\ podResult = NoPodcast
  /\ draftPrompt = <<>>
  /\ runPc = [r \in Runs |-> "idle"]
  /\ runTask = [r \in Runs |-> [i \in Agents |-> "notStarted"]]
  /\ heap = [ref \in Refs |-> NoObject]
  /\ delivered = [r \in Runs |-> <<>>]
  /\ draftPc = "idle"
  /\ draftCalls = 0
  /\ draftText = <<"?">>
  /\ draftResult = NoResult
  /\ instance = NoInstance
  /\ constructed = 0
  /\ llmOf = [h \in Holders |-> NoInstance]
  /\ clientOf = [h \in Holders |-> 0]
  /\ caught = [i \in Agents |-> NoErr]

(* the settings of the example at lines 355-362 *)
ExampleSettings ==
  [lengthLevel |-> 2, imageDensity |-> 2, targetWordCount |-> "50000",
   tone |-> "Professional yet accessible", visualStyle |-> "Modern infographics",
   techLevel |-> 3, customSpec |-> "", frontCoverPrompt |-> "", backCoverPrompt |-> ""]

AuxInit ==
  /\ settings = ExampleSettings
  /\ AuxInitBesideSettings

Init ==
  /\ call = [id \in CallIds |-> IdleCall]
  /\ argRetries = NoArg
  /\ argDelay = NoArg
  /\ execPc = "idle"
  /\ launched = 0
  /\ agentStates = <<>>
  /\ task = [i \in Agents |-> [pc |-> "notStarted", value |-> NoReport]]
  /\ runOutcome = [i \in Agents |-> [state |-> "none", value |-> NoReport]]
  /\ reports = <<>>
  /\ synthCalls = 0
  /\ synthText = <<"?">>
  /\ execResult = NoResult
  /\ AuxInit
  /\ lastEmitted = <<>>
  /\ emitCount = 0

(* Start without the emission of line 177 *)
Start_NoEmit(cbThrows) ==
  /\ execPc = "idle"
  /\ agentStates' = [i \in Agents |-> [name |-> AgentName(i), status |-> "PENDING"]]
  /\ cbThrows = FALSE
  /\ execPc' = "launching"
  /\ UNCHANGED <<call, argRetries, argDelay, launched, task, runOutcome,
                 reports, synthCalls, synthText, execResult, emitVars>>
  /\ UNCHANGED auxVars

(* execute, lines 176-177: build the states, first emission *)
Start(cbThrows) ==
  /\ execPc = "idle"
  /\ agentStates' = [i \in Agents |-> [name |-> AgentName(i), status |-> "PENDING"]]
  /\ Emit(agentStates')
  /\ IF cbThrows
       THEN /\ execPc' = "rejected"
            /\ execResult' = [kind |-> "callbackError", value |-> NoValue, err |-> NoErr]
       ELSE /\ execPc' = "launching"
            /\ UNCHANGED execResult
  /\ UNCHANGED <<call, argRetries, argDelay, launched, task, runOutcome,
                 reports, synthCalls, synthText>>
  /\ UNCHANGED auxVars

(* Launch that marks every agent RUNNING when the first task starts *)
Launch_AllRunning(i, cbThrows) ==
  /\ execPc = "launching"
  /\ i = launched + 1
  /\ launched' = i
  /\ agentStates' = [j \in Agents |-> [agentStates[j] EXCEPT !.status = "RUNNING"]]
  /\ Emit(agentStates')
  /\ IF cbThrows
       THEN /\ task' = [task EXCEPT ![i] = [pc |-> "rejected", value |-> NoReport]]
            /\ UNCHANGED <<call, runOutcome>>
       ELSE /\ task' = [task EXCEPT ![i].pc = "awaitingRun"]
            /\ call' = [call EXCEPT ![i] = StartCall(NoArg, NoArg)]
            /\ runOutcome' = [runOutcome EXCEPT ![i].state = "pending"]
  /\ execPc' = IF i = NumAgents THEN "awaiting" ELSE "launching"
  /\ UNCHANGED <<argRetries, argDelay, reports, synthCalls, synthText, execResult>>
  /\ UNCHANGED auxVars

(* execute, lines 180-185: the synchronous part of agent i's task *)
Launch(i, cbThrows) ==
  /\ execPc = "launching"
  /\ i = launched + 1
  /\ launched' = i
  /\ agentStates' = [agentStates EXCEPT ![i].status = "RUNNING"]
  /\ Emit(agentStates')
  /\ IF cbThrows
       THEN /\ task' = [task EXCEPT ![i] = [pc |-> "rejected", value |-> NoReport]]
            /\ UNCHANGED <<call, runOutcome>>
       ELSE /\ task' = [task EXCEPT ![i].pc = "awaitingRun"]
            /\ call' = [call EXCEPT ![i] = StartCall(NoArg, NoArg)]
            /\ runOutcome' = [runOutcome EXCEPT ![i].state = "pending"]
  /\ execPc' = IF i = NumAgents THEN "awaiting" ELSE "launching"
  /\ UNCHANGED <<argRetries, argDelay, reports, synthCalls, synthText, execResult>>
  /\ UNCHANGED auxVars

(* the agent's request succeeds: executeSearch returns, lines 185-188 *)
AgentResponse(i, text, cbThrows) ==
  /\ execPc = "awaiting" /\ ~Busy
  /\ task[i].pc = "awaitingRun"
  /\ call[i].pc = "attempting"
  /\ LET c == OnSuccess(call[i], [text |-> text])
         result == ExecuteSearchResult(i, c.resp)
     IN /\ runOutcome' = [runOutcome EXCEPT ![i] = [state |-> "returned", value |-> result]]
        /\ agentStates' = [agentStates EXCEPT ![i].status = "COMPLETED"]
        /\ Emit(agentStates')
        /\ task' = [task EXCEPT ![i] =
                      IF cbThrows THEN [pc |-> "catching", value |-> NoReport]
                                  ELSE [pc |-> "fulfilled", value |-> result]]
  /\ call' = [call EXCEPT ![i] = IdleCall]
  /\ UNCHANGED <<argRetries, argDelay, execPc, launched, reports, synthCalls,
                 synthText, execResult>>
  /\ UNCHANGED auxVars

(* lines 189-194 entered because the COMPLETED emission threw *)
AgentCatch(i, cbThrows) ==
  /\ task[i].pc = "catching"
  /\ agentStates' = [agentStates EXCEPT ![i].status = "FAILED"]
  /\ Emit(agentStates')
  /\ task' = [task EXCEPT ![i] = CatchBlock(i, cbThrows)]
  /\ UNCHANGED <<call, argRetries, argDelay, execPc, launched, runOutcome,
                 reports, synthCalls, synthText, execResult>>
  /\ UNCHANGED auxVars

(* RunSettlement of an agent that catches the client's error itself and    *)
(* returns its no-data text                                                *)
RunSettlement_AgentCatches(i, c) ==
  IF c.pc = "thrown"
    THEN [state |-> "returned", value |-> NoDataReport(AgentName(i)), err |-> NoErr]
    ELSE [state |-> "returned", value |-> ExecuteSearchResult(i, c.resp), err |-> NoErr]

(* what the await of agent.run(topic) at line 185 gives once the agent's   *)
(* call c has ended: executeSearch has no catch, so what the client throws *)
(* is what the run rejects with                                            *)
RunSettlement(i, c) ==
  IF c.pc = "thrown"
    THEN [state |-> "threw", value |-> NoReport, err |-> c.err]
    ELSE [state |-> "returned", value |-> ExecuteSearchResult(i, c.resp), err |-> NoErr]

(* the agent's request fails: retry inside the client, or the run rejects  *)
(* and lines 189-194 catch; received is the error the catch block receives *)
AgentErrorCore(i, kind, cbThrows, received) ==
  /\ execPc = "awaiting" /\ ~Busy
  /\ task[i].pc = "awaitingRun"
  /\ call[i].pc = "attempting"
  /\ LET c == OnFailure(call[i], MkErr(kind, call[i].attempts))
         r == RunSettlement(i, c)
     IN IF c.pc = "thrown"
          THEN /\ call' = [call EXCEPT ![i] = IdleCall]
               /\ IF r.state = "threw"
                    THEN /\ runOutcome' = [runOutcome EXCEPT ![i].state = "threw"]
                         /\ received = r.err
                         /\ agentStates' = [agentStates EXCEPT ![i].status = "FAILED"]
                         /\ Emit(agentStates')
                         /\ task' = [task EXCEPT ![i] = CatchBlock(i, cbThrows)]
                    ELSE /\ runOutcome' = [runOutcome EXCEPT ![i] =
                                             [state |-> "returned", value |-> r.value]]
                         /\ received = NoErr
                         /\ agentStates' = [agentStates EXCEPT ![i].status = "COMPLETED"]
                         /\ Emit(agentStates')
                         /\ task' = [task EXCEPT ![i] =
                                       IF cbThrows THEN [pc |-> "catching", value |-> NoReport]
                                                   ELSE [pc |-> "fulfilled", value |-> r.value]]
          ELSE /\ call' = [call EXCEPT ![i] = c]
               /\ cbThrows = FALSE
               /\ received = NoErr
               /\ UNCHANGED <<runOutcome, agentStates, task, emitVars>>
  /\ UNCHANGED <<argRetries, argDelay, execPc, launched, reports, synthCalls,
                 synthText, execResult>>

AgentError(i, kind, cbThrows) ==
  /\ \E received \in {NoErr} \cup {MkErr(kind, call[i].attempts)} :
       AgentErrorCore(i, kind, cbThrows, received)
  /\ UNCHANGED auxVars

(* AgentError that keeps the error the catch block received *)
AgentErrorTraced(i, kind, cbThrows) ==
  /\ \E received \in {NoErr} \cup {MkErr(kind, call[i].attempts)} :
       /\ AgentErrorCore(i, kind, cbThrows, received)
       /\ caught' = IF received = NoErr THEN caught ELSE [caught EXCEPT ![i] = received]
  /\ UNCHANGED besideTrace

(* TimerFires with the retry count kept in the shared client: the retry of *)
(* one call uses up a retry of every call in progress                      *)
TimerFires_SharedBudget(id) ==
  /\ ~Busy
  /\ call[id].pc = "waiting"
  /\ call' = [j \in CallIds |->
               IF j = id THEN OnTimer(call[id])
               ELSE IF call[j].pc \in {"attempting", "waiting"}
                 THEN [call[j] EXCEPT !.retries = @ - 1]
                 ELSE call[j]]
  /\ UNCHANGED <<argRetries, argDelay>>
  /\ UNCHANGED coordVars
  /\ UNCHANGED auxVars

(* the backoff timer of a call elapses: the recursive call, next attempt *)
TimerFires(id) ==
  /\ ~Busy
  /\ call[id].pc = "waiting"
  /\ call' = [call EXCEPT ![id] = OnTimer(call[id])]
  /\ UNCHANGED <<argRetries, argDelay>>
  /\ UNCHANGED coordVars
  /\ UNCHANGED auxVars

(* BuildReports that takes the crash report for every agent that is not   *)
(* COMPLETED                                                               *)
BuildReports_CrashOnFailed ==
  [i \in Agents |->
     IF task[i].pc = "fulfilled" /\ agentStates[i].status = "COMPLETED"
       THEN task[i].value ELSE CrashReport(AgentName(i))]

BuildReports ==
  [i \in Agents |->
     IF task[i].pc = "fulfilled" THEN task[i].value ELSE CrashReport(AgentName(i))]

(* Synthesize with Promise.all in place of Promise.allSettled and a catch  *)
(* block that rethrows: a failed agent rejects execute                     *)
Synthesize_PromiseAll ==
  /\ execPc = "awaiting"
  /\ \A i \in Agents : Settled(task[i])
  /\ IF \E i \in Agents : runOutcome[i].state = "threw"
       THEN /\ execPc' = "rejected"
            /\ execResult' = [kind |-> "agentError", value |-> NoValue, err |-> NoErr]
            /\ UNCHANGED <<reports, call, synthCalls>>
       ELSE /\ reports' = BuildReports
            /\ call' = [call EXCEPT ![SynthCall] = StartCall(NoArg, NoArg)]
            /\ synthCalls' = synthCalls + 1
            /\ execPc' = "synthesizing"
            /\ UNCHANGED execResult
  /\ UNCHANGED <<argRetries, argDelay, launched, agentStates, task, runOutcome,
                 synthText>>
  /\ UNCHANGED auxVars
  /\ UNCHANGED emitVars

(* lines 197-286: allSettled resolves, reports are built, synthesis is requested *)
Synthesize ==
  /\ execPc = "awaiting"
  /\ \A i \in Agents : Settled(task[i])
  /\ reports' = BuildReports
  /\ call' = [call EXCEPT ![SynthCall] = StartCall(NoArg, NoArg)]
  /\ synthCalls' = synthCalls + 1
  /\ execPc' = "synthesizing"
  /\ UNCHANGED <<argRetries, argDelay, launched, agentStates, task, runOutcome,
                 synthText, execResult>>
  /\ UNCHANGED auxVars
  /\ UNCHANGED emitVars

(* SynthResponse that calls onProgress once the synthesis has completed,   *)
(* as the comment at lines 145-147 has it                                  *)
SynthResponse_Emits(text) ==
  /\ execPc = "synthesizing"
  /\ call[SynthCall].pc = "attempting"
  /\ LET c == OnSuccess(call[SynthCall], [text |-> text])
         res == ParseAndValidate(SynthTextOrDefault(c.resp))
     IN /\ call' = [call EXCEPT ![SynthCall] = c]
        /\ synthText' = text
        /\ execResult' = res
        /\ execPc' = IF res.kind = "value" THEN "resolved" ELSE "rejected"
  /\ Emit(agentStates)
  /\ UNCHANGED <<argRetries, argDelay, launched, agentStates, task, runOutcome,
                 reports, synthCalls>>
  /\ UNCHANGED auxVars

(* lines 288-298: the synthesis response arrives *)
SynthResponse(text) ==
  /\ execPc = "synthesizing"
  /\ call[SynthCall].pc = "attempting"
  /\ LET c == OnSuccess(call[SynthCall], [text |-> text])
         res == ParseAndValidate(SynthTextOrDefault(c.resp))
     IN /\ call' = [call EXCEPT ![SynthCall] = c]
        /\ synthText' = text
        /\ execResult' = res
        /\ execPc' = IF res.kind = "value" THEN "resolved" ELSE "rejected"
  /\ UNCHANGED <<argRetries, argDelay, launched, agentStates, task, runOutcome,
                 reports, synthCalls>>
  /\ UNCHANGED auxVars
  /\ UNCHANGED emitVars

(* SynthError with the request inside the try of lines 291-298: a thrown   *)
(* request error comes out as the validation error                         *)
SynthError_InsideTry(kind) ==
  /\ execPc = "synthesizing"
  /\ call[SynthCall].pc = "attempting"
  /\ LET c == OnFailure(call[SynthCall], MkErr(kind, call[SynthCall].attempts))
     IN /\ call' = [call EXCEPT ![SynthCall] = c]
        /\ IF c.pc = "thrown"
             THEN /\ execPc' = "rejected"
                  /\ execResult' = [kind |-> "validationError", value |-> NoValue,
                                     err |-> ValidationFailure]
             ELSE UNCHANGED <<execPc, execResult>>
  /\ UNCHANGED <<argRetries, argDelay, launched, agentStates, task, runOutcome,
                 reports, synthCalls, synthText>>
  /\ UNCHANGED auxVars
  /\ UNCHANGED emitVars

(* line 215: the synthesis request fails; retried or thrown out of execute *)
SynthError(kind) ==
  /\ execPc = "synthesizing"
  /\ call[SynthCall].pc = "attempting"
  /\ LET c == OnFailure(call[SynthCall], MkErr(kind, call[SynthCall].attempts))
     IN /\ call' = [call EXCEPT ![SynthCall] = c]
        /\ IF c.pc = "thrown"
             THEN /\ execPc' = "rejected"
                  /\ execResult' = [kind |-> "transportError", value |-> NoValue, err |-> c.err]
             ELSE UNCHANGED <<execPc, execResult>>
  /\ UNCHANGED <<argRetries, argDelay, launched, agentStates, task, runOutcome,
                 reports, synthCalls, synthText>>
  /\ UNCHANGED auxVars
  /\ UNCHANGED emitVars

Next ==
  \/ \E cb \in BOOLEAN : Start(cb)
  \/ \E i \in Agents, cb \in BOOLEAN : Launch(i, cb)
  \/ \E i \in Agents, t \in AgentTexts, cb \in BOOLEAN : AgentResponse(i, t, cb)
  \/ \E i \in Agents, cb \in BOOLEAN : AgentCatch(i, cb)
  \/ \E i \in Agents, k \in CoordErrorKinds, cb \in BOOLEAN : AgentError(i, k, cb)
  \/ \E id \in Agents \cup {SynthCall} : TimerFires(id)
  \/ Synthesize
  \/ \E t \in SynthTexts : SynthResponse(t)
  \/ \E k \in CoordErrorKinds : SynthError(k)

Spec == Init /\ [][Next]_vars

(* execute with an onProgress that returns at every call *)
NextCallbackReturns ==
  \/ Start(FALSE)
  \/ \E i \in Agents : Launch(i, FALSE)
  \/ \E i \in Agents, t \in AgentTexts : AgentResponse(i, t, FALSE)
  \/ \E i \in Agents, k \in CoordErrorKinds : AgentError(i, k, FALSE)
  \/ \E id \in Agents \cup {SynthCall} : TimerFires(id)
  \/ Synthesize
  \/ \E t \in SynthTexts : SynthResponse(t)
  \/ \E k \in CoordErrorKinds : SynthError(k)

SpecCallbackReturns == Init /\ [][NextCallbackReturns]_vars

(* the request of the current attempt of call id settles *)
RequestSettles(id) ==
  IF id = SynthCall
    THEN \/ \E t \in SynthTexts : SynthResponse(t)
         \/ \E k \in CoordErrorKinds : SynthError(k)
    ELSE \/ \E t \in AgentTexts : AgentResponse(id, t, FALSE)
         \/ \E k \in CoordErrorKinds : AgentError(id, k, FALSE)

(* SpecCallbackReturns where the synchronous code runs on, every request   *)
(* settles and every wait elapses                                          *)
SpecCallbackReturnsFair ==
  /\ SpecCallbackReturns
  /\ WF_vars(\E i \in Agents : Launch(i, FALSE))
  /\ WF_vars(Synthesize)
  /\ \A id \in Agents \cup {SynthCall} :
       WF_vars(RequestSettles(id)) /\ WF_vars(TimerFires(id))

(***************************************************************************)
(* A direct call generateContentWithRetry(params, maxRetries, initialDelay)*)
(* with the arguments drawn from RetryArgs and DelayArgs (NoArg: omitted). *)
(***************************************************************************)
InitRetry ==
  /\ call = [id \in CallIds |-> IdleCall]
  /\ argRetries \in RetryArgs
  /\ argDelay \in DelayArgs
  /\ execPc = "idle"
  /\ launched = 0
  /\ agentStates = <<>>
  /\ task = [i \in Agents |-> [pc |-> "notStarted", value |-> NoReport]]
  /\ runOutcome = [i \in Agents |-> [state |-> "none", value |-> NoReport]]
  /\ reports = <<>>
  /\ synthCalls = 0
  /\ synthText = <<"?">>
  /\ execResult = NoResult
  /\ AuxInit
  /\ lastEmitted = <<>>
  /\ emitCount = 0

DirectStart ==
  /\ call[DirectCall].pc = "idle"
  /\ call' = [call EXCEPT ![DirectCall] = StartCall(argRetries, argDelay)]
  /\ UNCHANGED <<argRetries, argDelay>>
  /\ UNCHANGED coordVars
  /\ UNCHANGED auxVars

DirectResponse(text) ==
  /\ call[DirectCall].pc = "attempting"
  /\ call' = [call EXCEPT ![DirectCall] = OnSuccess(call[DirectCall], [text |-> text])]
  /\ UNCHANGED <<argRetries, argDelay>>
  /\ UNCHANGED coordVars
  /\ UNCHANGED auxVars

DirectError(kind) ==
  /\ call[DirectCall].pc = "attempting"
  /\ call' = [call EXCEPT ![DirectCall] =
                OnFailure(call[DirectCall], MkErr(kind, call[DirectCall].attempts))]
  /\ UNCHANGED <<argRetries, argDelay>>
  /\ UNCHANGED coordVars
  /\ UNCHANGED auxVars

NextRetry ==
  \/ DirectStart
  \/ \E t \in AgentTexts : DirectResponse(t)
  \/ \E k \in ErrorKinds : DirectError(k)
  \/ TimerFires(DirectCall)

SpecRetry == InitRetry /\ [][NextRetry]_vars

(* the request of the current attempt settles: generateContent returns or  *)
(* throws (line 280)                                                       *)
AttemptCompletes ==
  \/ \E t \in AgentTexts : DirectResponse(t)
  \/ \E k \in ErrorKinds : DirectError(k)

(* SpecRetry where every attempt completes and every wait elapses *)
SpecRetryFair ==
  /\ SpecRetry
  /\ WF_vars(AttemptCompletes)
  /\ WF_vars(TimerFires(DirectCall))

(***************************************************************************)
(* The parse step of execute (lines 288-298) on its own: the run has       *)
(* reached the synthesis request with four real reports, and the response  *)
(* text is drawn from ParseTexts.                                          *)
(***************************************************************************)
RECURSIVE SeqsUpTo(_, _)
SeqsUpTo(S, n) ==
  IF n = 0 THEN {<<>>}
  ELSE LET shorter == SeqsUpTo(S, n - 1)
       IN shorter \cup {Append(t, c) : t \in shorter, c \in S}

(* texts that are valid JSON matching the schema *)
ValidJsonTexts ==
  {<<"{research}">>} \cup
  {<<"{research:">> \o body \o <<":end}">> : body \in SeqsUpTo(StringChars, MaxSummaryLen)}

ParseTexts ==
  ValidJsonTexts \cup {Fenced(t) : t \in ValidJsonTexts}
                 \cup SeqsUpTo(StringChars, MaxTextLen)

InitParse ==
  /\ call = [id \in CallIds |->
               IF id = SynthCall THEN StartCall(NoArg, NoArg) ELSE IdleCall]
  /\ argRetries = NoArg
  /\ argDelay = NoArg
  /\ execPc = "synthesizing"
  /\ launched = NumAgents
  /\ agentStates = [i \in Agents |-> [name |-> AgentName(i), status |-> "COMPLETED"]]
  /\ task = [i \in Agents |-> [pc |-> "fulfilled", value |-> TextReport(<<"findings">>)]]
  /\ runOutcome = [i \in Agents |->
                     [state |-> "returned", value |-> TextReport(<<"findings">>)]]
  /\ reports = [i \in Agents |-> TextReport(<<"findings">>)]
  /\ synthCalls = 1
  /\ synthText = <<"?">>
  /\ execResult = NoResult
  /\ AuxInit
  /\ lastEmitted = agentStates
  /\ emitCount = 2 * NumAgents + 1

NextParse == \E t \in ParseTexts : SynthResponse(t)

SpecParse == InitParse /\ [][NextParse]_vars

(***************************************************************************)
(* AuthorAgent.generateDraft: one request through the client, then         *)
(* parseJsonFromLLM and BookSchema.parse on the response text.             *)
(***************************************************************************)
DraftTexts ==
  { <<"{book}">>,
    Fenced(<<"{book}">>),
    <<"not json">>,
    <<>>,
    <<"{bookpartial}">>,
    <<"{bookbadtypes}">>,
    <<"{research}">> }

DraftTextOrDefault(r) == IF r.text # <<>> THEN r.text ELSE <<"{}">>

(* parseJsonFromLLM: the fence stripping of the synthesis step, then       *)
(* JSON.parse                                                              *)
ParseJsonFromLLMThrows(text) == ~JsonParses(CleanText(text))

ParseJsonFromLLM(text) == JsonParse(CleanText(text))

BookSchemaAccepts(v) == BookFields \subseteq v.fields /\ v.typed

BookSchemaParse(v) ==
  [fields |-> v.fields \cap BookFields, typed |-> v.typed, summary |-> v.summary]

(* the error of parseJsonFromLLM or of BookSchema.parse, which             *)
(* generateDraft lets through as it is                                     *)
DraftValidationFailure ==
  [status |-> 0, respStatus |-> 0,
   msg |-> <<"Failed", "to", "validate", "book", "draft", "structure.">>,
   at |-> 0]

(* lines 546-549 without the schema: the parsed object is returned as is   *)
ParseAndValidateDraft_NoSchema(text) ==
  IF ~ParseJsonFromLLMThrows(text)
    THEN [kind |-> "value", value |-> ParseJsonFromLLM(text), err |-> NoErr]
    ELSE [kind |-> "validationError", value |-> NoValue, err |-> DraftValidationFailure]

(* lines 546-549 *)
ParseAndValidateDraft(text) ==
  IF ~ParseJsonFromLLMThrows(text) /\ BookSchemaAccepts(ParseJsonFromLLM(text))
    THEN [kind |-> "value", value |-> BookSchemaParse(ParseJsonFromLLM(text)),
          err |-> NoErr]
    ELSE [kind |-> "validationError", value |-> NoValue, err |-> DraftValidationFailure]

(* lines 456-458 with two branches only: no standard length *)
LengthInstruction_TwoLevels(s) ==
  IF s.lengthLevel = 1 THEN "Keep chapters short (Nano-sized)."
  ELSE "Write extensive, deep chapters."

(* lines 456-458 *)
LengthInstruction(s) ==
  IF s.lengthLevel = 1 THEN "Keep chapters short (Nano-sized)."
  ELSE IF s.lengthLevel = 3 THEN "Write extensive, deep chapters."
  ELSE "Standard chapter length."

(* lines 460-462 *)
ImageInstruction(s) ==
  IF s.imageDensity = 3 THEN "Include 3-4 visual descriptions per chapter."
  ELSE IF s.imageDensity = 1 THEN "Minimal visuals, text focused."
  ELSE "Include 1-2 visual descriptions per chapter."

(* value || fallback on a string: the empty string is absent *)
OrDefault(value, fallback) == IF value = "" THEN fallback ELSE value

(* ${settings.techLevel}: a number of the 0-5 scale written in decimal *)
NumberText(n) == <<"0", "1", "2", "3", "4", "5">>[n + 1]

Line(label, text) == [label |-> label, text |-> text]

(* lines 464-471 *)
Constraints(s) ==
  << Line("Target Word Count:", OrDefault(s.targetWordCount, "Default")),
     Line("Tone:", OrDefault(s.tone, "Default Y-It Satire")),
     Line("Visual Style:", OrDefault(s.visualStyle, "Default Forensic/Gritty")),
     Line("", LengthInstruction(s)),
     Line("", ImageInstruction(s)),
     Line("Tech Level:", NumberText(s.techLevel)) >>

(* lines 475-485: topic and research are the same in every call here *)
DraftContents(s) ==
  << Line("Topic:", "<topic>"),
     Line("Research Summary:", "<research.summary>"),
     Line("Market Stats:", "<research.marketStats>"),
     Line("Case Studies:", "<research.caseStudies>"),
     Line("User Constraints:", "") >>
  \o Constraints(s) \o
  << Line("Custom Spec:", OrDefault(s.customSpec, "Use Standard Spec")),
     Line("Cover Art Instructions:", ""),
     Line("Front:", OrDefault(s.frontCoverPrompt,
                              "Auto-generate based on Y-It Brand (Yellow/Black/Bold)")),
     Line("Back:", OrDefault(s.backCoverPrompt, "Auto-generate based on Y-It Brand")) >>

(* lines 454-473: generateDraft is called with the research execute        *)
(* resolved with, and issues its request                                   *)
GenerateDraft ==
  /\ execPc = "resolved"
  /\ draftPc = "idle"
  /\ call' = [call EXCEPT ![DraftCall] = StartCall(NoArg, NoArg)]
  /\ draftCalls' = draftCalls + 1
  /\ draftPc' = "requesting"
  /\ draftPrompt' = DraftContents(settings)
  /\ UNCHANGED <<argRetries, argDelay, draftText, draftResult, settings>>
  /\ UNCHANGED coordVars
  /\ UNCHANGED besideDraft

(* DraftResponse that asks again when the response does not validate       *)
DraftResponse_RetryInvalid(text) ==
  /\ draftPc = "requesting"
  /\ call[DraftCall].pc = "attempting"
  /\ LET c == OnSuccess(call[DraftCall], [text |-> text])
         res == ParseAndValidateDraft(DraftTextOrDefault(c.resp))
     IN IF res.kind = "value" \/ draftCalls >= 2
          THEN /\ call' = [call EXCEPT ![DraftCall] = c]
               /\ draftResult' = res
               /\ draftPc' = IF res.kind = "value" THEN "resolved" ELSE "rejected"
               /\ UNCHANGED draftCalls
          ELSE /\ call' = [call EXCEPT ![DraftCall] = StartCall(NoArg, NoArg)]
               /\ draftCalls' = draftCalls + 1
               /\ UNCHANGED <<draftResult, draftPc>>
  /\ draftText' = text
  /\ UNCHANGED <<argRetries, argDelay, draftInput>>
  /\ UNCHANGED coordVars
  /\ UNCHANGED besideDraft

(* lines 546-549: the response arrives *)
DraftResponse(text) ==
  /\ draftPc = "requesting"
  /\ call[DraftCall].pc = "attempting"
  /\ LET c == OnSuccess(call[DraftCall], [text |-> text])
         res == ParseAndValidateDraft(DraftTextOrDefault(c.resp))
     IN /\ call' = [call EXCEPT ![DraftCall] = c]
        /\ draftResult' = res
        /\ draftPc' = IF res.kind = "value" THEN "resolved" ELSE "rejected"
  /\ draftText' = text
  /\ UNCHANGED <<argRetries, argDelay, draftCalls, draftInput>>
  /\ UNCHANGED coordVars
  /\ UNCHANGED besideDraft

(* line 473: the request fails; retried or thrown out of generateDraft *)
DraftError(kind) ==
  /\ draftPc = "requesting"
  /\ call[DraftCall].pc = "attempting"
  /\ LET c == OnFailure(call[DraftCall], MkErr(kind, call[DraftCall].attempts))
     IN /\ call' = [call EXCEPT ![DraftCall] = c]
        /\ IF c.pc = "thrown"
             THEN /\ draftPc' = "rejected"
                  /\ draftResult' = [kind |-> "transportError", value |-> NoValue,
                                     err |-> c.err]
             ELSE UNCHANGED <<draftPc, draftResult>>
  /\ UNCHANGED <<argRetries, argDelay, draftCalls, draftText, draftInput>>
  /\ UNCHANGED coordVars
  /\ UNCHANGED besideDraft

(* the two structured-output stages in sequence: execute from its          *)
(* synthesis request on, then generateDraft on the research it resolved    *)
(* with                                                                    *)
NextStages ==
  \/ \E t \in SynthTexts : SynthResponse(t)
  \/ \E k \in CoordErrorKinds : SynthError(k)
  \/ GenerateDraft
  \/ \E t \in DraftTexts : DraftResponse(t)
  \/ \E k \in ErrorKinds : DraftError(k)
  \/ \E id \in {SynthCall, DraftCall} : TimerFires(id)

SpecStages == InitParse /\ [][NextStages]_vars

(***************************************************************************)
(* generateDraft up to its request, for every value of the settings        *)
(***************************************************************************)
Levels == 1..3

TechLevels == 0..5

SettingsSpace ==
  [lengthLevel : Levels, imageDensity : Levels,
   targetWordCount : {"", "50000"},
   tone : {"", "Professional yet accessible"},
   visualStyle : {"", "Modern infographics"},
   techLevel : TechLevels,
   customSpec : {"", "No cliches"},
   frontCoverPrompt : {""}, backCoverPrompt : {""}]

(* execute has resolved with a validated research object *)
InitDirectives ==
  /\ call = [id \in CallIds |->
               IF id = SynthCall
                 THEN OnSuccess(StartCall(NoArg, NoArg), [text |-> <<"{research}">>])
                 ELSE IdleCall]
  /\ argRetries = NoArg
  /\ argDelay = NoArg
  /\ execPc = "resolved"
  /\ launched = NumAgents
  /\ agentStates = [i \in Agents |-> [name |-> AgentName(i), status |-> "COMPLETED"]]
  /\ task = [i \in Agents |-> [pc |-> "fulfilled", value |-> TextReport(<<"findings">>)]]
  /\ runOutcome = [i \in Agents |->
                     [state |-> "returned", value |-> TextReport(<<"findings">>)]]
  /\ reports = [i \in Agents |-> TextReport(<<"findings">>)]
  /\ synthCalls = 1
  /\ synthText = <<"{research}">>
  /\ execResult = ParseAndValidate(<<"{research}">>)
  /\ settings \in SettingsSpace
  /\ AuxInitBesideSettings
  /\ lastEmitted = agentStates
  /\ emitCount = 2 * NumAgents + 1

NextDirectives ==
  \/ GenerateDraft
  \/ \E t \in {<<"{book}">>, <<"not json">>} : DraftResponse(t)

SpecDirectives == InitDirectives /\ [][NextDirectives]_vars

(***************************************************************************)
(* LLMClient.getInstance and getClient, called by the components in any    *)
(* order and any number of times.  The static field is never reset.        *)
(***************************************************************************)
(* lines 211-216: the value getInstance returns in the current state *)
GetInstanceResult ==
  IF instance = NoInstance THEN NewLLMClient(constructed + 1) ELSE instance

(* GetInstance without the test of the static field: every call constructs *)
GetInstance_AlwaysNew(h) ==
  /\ constructed < 3
  /\ instance' = NewLLMClient(constructed + 1)
  /\ constructed' = constructed + 1
  /\ llmOf' = [llmOf EXCEPT ![h] = NewLLMClient(constructed + 1)]
  /\ UNCHANGED <<call, argRetries, argDelay, clientOf>>
  /\ UNCHANGED coordVars
  /\ UNCHANGED besideSingleton

(* component h is constructed: this.llm = LLMClient.getInstance() *)
GetInstance(h) ==
  /\ instance' = GetInstanceResult
  /\ constructed' = IF instance = NoInstance THEN constructed + 1 ELSE constructed
  /\ llmOf' = [llmOf EXCEPT ![h] = GetInstanceResult]
  /\ UNCHANGED <<call, argRetries, argDelay, clientOf>>
  /\ UNCHANGED coordVars
  /\ UNCHANGED besideSingleton

(* lines 231-233: component h calls this.llm.getClient() *)
GetClient(h) ==
  /\ llmOf[h] # NoInstance
  /\ clientOf' = [clientOf EXCEPT ![h] = llmOf[h].client]
  /\ UNCHANGED <<call, argRetries, argDelay, instance, constructed, llmOf>>
  /\ UNCHANGED coordVars
  /\ UNCHANGED besideSingleton

NextSingleton ==
  \/ \E h \in Holders : GetInstance(h)
  \/ \E h \in Holders : GetClient(h)

SpecSingleton == Init /\ [][NextSingleton]_vars

(***************************************************************************)
(* The last agent of a run: three tasks are fulfilled with their texts,    *)
(* the fourth (any of the agents) awaits its run.  Its request meets every *)
(* kind of error, and the error its catch block receives is kept.          *)
(***************************************************************************)
InitLastAgent ==
  \E last \in Agents :
    /\ call = [id \in CallIds |->
                 IF id = last THEN StartCall(NoArg, NoArg) ELSE IdleCall]
    /\ argRetries = NoArg
    /\ argDelay = NoArg
    /\ execPc = "awaiting"
    /\ launched = NumAgents
    /\ agentStates = [i \in Agents |->
                        [name |-> AgentName(i),
                         status |-> IF i = last THEN "RUNNING" ELSE "COMPLETED"]]
    /\ task = [i \in Agents |->
                 IF i = last THEN [pc |-> "awaitingRun", value |-> NoReport]
                 ELSE [pc |-> "fulfilled", value |-> TextReport(<<"findings">>)]]
    /\ runOutcome = [i \in Agents |->
                       IF i = last THEN [state |-> "pending", value |-> NoReport]
                       ELSE [state |-> "returned", value |-> TextReport(<<"findings">>)]]
    /\ reports = <<>>
    /\ synthCalls = 0
    /\ synthText = <<"?">>
    /\ execResult = NoResult
    /\ lastEmitted = agentStates
    /\ emitCount = 2 * NumAgents
    /\ AuxInit

NextLastAgent ==
  \/ \E i \in Agents, t \in AgentTexts, cb \in BOOLEAN : AgentResponse(i, t, cb)
  \/ \E i \in Agents, cb \in BOOLEAN : AgentCatch(i, cb)
  \/ \E i \in Agents, k \in ErrorKinds, cb \in BOOLEAN : AgentErrorTraced(i, k, cb)
  \/ \E i \in Agents : TimerFires(i)
  \/ Synthesize

SpecLastAgent == InitLastAgent /\ [][NextLastAgent]_vars

(***************************************************************************)
(* PodcastService.generatePodcast (PodcastService.ts, lines 25-102).  A    *)
(* book is the sequence of its chapters, each with its number and the      *)
(* number of its PosiBot quotes; texts are named, not spelled out.  The    *)
(* retries inside textToSpeech's request are those of                      *)
(* generateContentWithRetry; here only the outcome of textToSpeech is      *)
(* drawn.                                                                  *)
(***************************************************************************)
besidePodcast == <<call, argRetries, argDelay, coordVars, draftVars,
                   singletonVars, traceVars, runsVars>>

RECURSIVE ChapterLists(_)
ChapterLists(n) ==
  IF n = 0 THEN {<<>>}
  ELSE ChapterLists(n - 1) \cup
       {Append(b, [number |-> n, quotes |-> q]) :
          b \in {c \in ChapterLists(n - 1) : Len(c) = n - 1}, q \in 0..MaxQuotes}

Books == ChapterLists(MaxChapters)

PodcastSettingsSpace ==
  [tier : {"BASIC", "NARRATIVE"},
   primaryVoice : {"Puck"}, secondaryVoice : {"", "Kore"}, posiBotVoice : {"", "Zephyr"},
   includeIntro : BOOLEAN, includeOutro : BOOLEAN,
   includeChapterBreaks : BOOLEAN, includePosiBotQuotes : BOOLEAN]

Segment(type, number, text, voice) ==
  [type |-> type, chapterNumber |-> number, text |-> text, voice |-> voice,
   audioData |-> ""]

(* lines 60-61; i is the index of line 42, from 0 *)
ChapterVoice(s, i) ==
  IF s.tier = "BASIC" THEN s.primaryVoice
  ELSE IF i % 2 = 0 THEN s.primaryVoice
  ELSE IF s.secondaryVoice # "" THEN s.secondaryVoice ELSE s.primaryVoice

(* lines 43-74: the segments pushed for the chapter at index i (from 0) *)
ChapterSegments(book, s, i) ==
  LET chapter == book[i + 1]
  IN (IF s.includeChapterBreaks /\ i > 0
        THEN <<Segment("transition", chapter.number, <<"title", chapter.number>>,
                       s.primaryVoice)>>
        ELSE <<>>)
     \o <<Segment("chapter", chapter.number, <<"content", chapter.number>>,
                  ChapterVoice(s, i))>>
     \o (IF s.includePosiBotQuotes /\ s.posiBotVoice # ""
           THEN [q \in 1..chapter.quotes |->
                   Segment("posibot", chapter.number, <<"quote", chapter.number, q>>,
                           s.posiBotVoice)]
           ELSE <<>>)

RECURSIVE ChaptersFrom(_, _, _)
ChaptersFrom(book, s, i) ==
  IF i >= Len(book) THEN <<>>
  ELSE ChapterSegments(book, s, i) \o ChaptersFrom(book, s, i + 1)

(* lines 30-83 *)
BuildSegments(book, s) ==
  (IF s.includeIntro THEN <<Segment("intro", 0, <<"intro">>, s.primaryVoice)>> ELSE <<>>)
  \o ChaptersFrom(book, s, 0)
  \o (IF s.includeOutro THEN <<Segment("outro", 0, <<"outro">>, s.primaryVoice)>> ELSE <<>>)

(* line 89: Math.round((i / totalSegments) * 100), i from 0 *)
ProgressValue(i, total) == (200 * i + total) \div (2 * total)

ProgressOf(segs, i) ==
  [value |-> ProgressValue(i - 1, Len(segs)), status |-> segs[i].type]

Complete == [value |-> 100, status |-> "Complete"]

(* what textToSpeech does: it returns audio data, or throws because the    *)
(* response holds none (line 147) or because the request threw (line 125)  *)
TtsOutcomes == {"audio", "noAudio", "requestError"}

(* lines 87-101 from the top of the loop at index i (from 1), up to the    *)
(* next await or the end of the call                                       *)
LoopFrom(segs, i, hasCb, cbThrows) ==
  /\ podSegments' = segs
  /\ IF i <= Len(segs)
       THEN /\ podProgress' = IF hasCb THEN ProgressOf(segs, i) ELSE podProgress
            /\ IF cbThrows
                 THEN /\ podPc' = "rejected"
                      /\ podResult' = [kind |-> "callbackError", segments |-> <<>>]
                      /\ UNCHANGED podIdx
                 ELSE /\ podPc' = "requesting"
                      /\ podIdx' = i
                      /\ UNCHANGED podResult
       ELSE /\ podProgress' = IF hasCb THEN Complete ELSE podProgress
            /\ UNCHANGED podIdx
            /\ IF cbThrows
                 THEN /\ podPc' = "rejected"
                      /\ podResult' = [kind |-> "callbackError", segments |-> <<>>]
                 ELSE /\ podPc' = "resolved"
                      /\ podResult' = [kind |-> "value", segments |-> segs]

(* lines 25-92: the call, up to the first request *)
GeneratePodcast(book, s, hasCb, cbThrows) ==
  /\ podPc = "idle"
  /\ cbThrows => hasCb
  /\ podBook' = book
  /\ podSettings' = s
  /\ podHasCallback' = hasCb
  /\ LoopFrom(BuildSegments(book, s), 1, hasCb, cbThrows)
  /\ UNCHANGED besidePodcast

(* TtsSettles without the try of lines 91-96: a failure of textToSpeech    *)
(* rejects the call                                                        *)
TtsSettles_NoCatch(outcome, cbThrows) ==
  /\ podPc = "requesting"
  /\ cbThrows => podHasCallback
  /\ IF outcome = "audio"
       THEN LoopFrom([podSegments EXCEPT ![podIdx].audioData = "audio"],
                     podIdx + 1, podHasCallback, cbThrows)
       ELSE /\ podPc' = "rejected"
            /\ podResult' = [kind |-> "ttsError", segments |-> <<>>]
            /\ UNCHANGED <<podSegments, podIdx, podProgress>>
  /\ UNCHANGED <<podBook, podSettings, podHasCallback>>
  /\ UNCHANGED besidePodcast

(* lines 92-99: the request of the current segment settles *)
TtsSettles(outcome, cbThrows) ==
  /\ podPc = "requesting"
  /\ cbThrows => podHasCallback
  /\ LoopFrom(IF outcome = "audio"
                THEN [podSegments EXCEPT ![podIdx].audioData = "audio"]
                ELSE podSegments,
              podIdx + 1, podHasCallback, cbThrows)
  /\ UNCHANGED <<podBook, podSettings, podHasCallback>>
  /\ UNCHANGED besidePodcast

NextPodcast ==
  \/ \E book \in Books, s \in PodcastSettingsSpace, hasCb \in BOOLEAN, cb \in BOOLEAN :
       GeneratePodcast(book, s, hasCb, cb)
  \/ \E o \in TtsOutcomes, cb \in BOOLEAN : TtsSettles(o, cb)

SpecPodcast == Init /\ [][NextPodcast]_vars

(***************************************************************************)
(* Two calls of execute on the same coordinator that overlap (lines        *)
(* 175-197).  agentStates is a local of each call (line 176) and the array *)
(* passed to onProgress is a copy that holds the same objects (line 177).  *)
(* The outcome of agent.run is drawn here; the synthesis is left out.      *)
(***************************************************************************)
besideRuns == <<call, argRetries, argDelay, coordVars, draftVars,
                singletonVars, traceVars, podVars>>

(* the synchronous part of a call (lines 176-195, up to the first await)   *)
(* or a catch block is running: nothing else runs meanwhile                *)
RunBusy ==
  \/ \E r \in Runs : runPc[r] = "launching"
  \/ \E r \in Runs, i \in Agents : runTask[r][i] = "catching"

(* onProgress([...agentStates]) of call r *)
RunEmit(r) ==
  delivered' = [delivered EXCEPT ![r] = [i \in Agents |-> StateRef(r, i)]]

SetStatus(r, i, s) == heap' = [heap EXCEPT ![StateRef(r, i)].status = s]

(* lines 176-177 *)
RunStart(r, cbThrows) ==
  /\ runPc[r] = "idle" /\ ~RunBusy
  /\ heap' = [ref \in Refs |->
               IF \E i \in Agents : ref = StateRef(r, i)
                 THEN [name |-> AgentName(ref[2]), status |-> "PENDING"]
                 ELSE heap[ref]]
  /\ RunEmit(r)
  /\ runPc' = [runPc EXCEPT ![r] = IF cbThrows THEN "rejected" ELSE "launching"]
  /\ UNCHANGED runTask
  /\ UNCHANGED besideRuns

(* lines 180-185 *)
RunLaunch(r, i, cbThrows) ==
  /\ runPc[r] = "launching"
  /\ runTask[r][i] = "notStarted"
  /\ \A j \in 1..(i - 1) : runTask[r][j] # "notStarted"
  /\ SetStatus(r, i, "RUNNING")
  /\ RunEmit(r)
  /\ runTask' = [runTask EXCEPT ![r][i] = IF cbThrows THEN "rejected" ELSE "awaitingRun"]
  /\ runPc' = [runPc EXCEPT ![r] = IF i = NumAgents THEN "awaiting" ELSE "launching"]
  /\ UNCHANGED besideRuns

(* lines 185-188 (agent.run returned) or 189-193 (it threw) *)
RunAgentSettles(r, i, ok, cbThrows) ==
  /\ runPc[r] = "awaiting" /\ ~RunBusy
  /\ runTask[r][i] = "awaitingRun"
  /\ SetStatus(r, i, IF ok THEN "COMPLETED" ELSE "FAILED")
  /\ RunEmit(r)
  /\ runTask' = [runTask EXCEPT ![r][i] = IF ok /\ cbThrows THEN "catching" ELSE "settled"]
  /\ UNCHANGED runPc
  /\ UNCHANGED besideRuns

(* lines 189-193 entered because the COMPLETED emission threw *)
RunAgentCatch(r, i) ==
  /\ runTask[r][i] = "catching"
  /\ SetStatus(r, i, "FAILED")
  /\ RunEmit(r)
  /\ runTask' = [runTask EXCEPT ![r][i] = "settled"]
  /\ UNCHANGED runPc
  /\ UNCHANGED besideRuns

(* line 197: all tasks of call r have settled *)
RunJoin(r) ==
  /\ runPc[r] = "awaiting" /\ ~RunBusy
  /\ \A i \in Agents : runTask[r][i] \in {"settled", "rejected"}
  /\ runPc' = [runPc EXCEPT ![r] = "joined"]
  /\ UNCHANGED <<runTask, heap, delivered>>
  /\ UNCHANGED besideRuns

NextTwoRuns ==
  \/ \E r \in Runs, cb \in BOOLEAN : RunStart(r, cb)
  \/ \E r \in Runs, i \in Agents, cb \in BOOLEAN : RunLaunch(r, i, cb)
  \/ \E r \in Runs, i \in Agents, ok \in BOOLEAN, cb \in BOOLEAN :
       RunAgentSettles(r, i, ok, cb)
  \/ \E r \in Runs, i \in Agents : RunAgentCatch(r, i)
  \/ \E r \in Runs : RunJoin(r)

SpecTwoRuns == Init /\ [][NextTwoRuns]_vars

(***************************************************************************)
(* Properties of ResearchCoordinator.execute                               *)
(***************************************************************************)
Ended == execPc \in {"resolved", "rejected"}

EndedAfterFanOut == Ended /\ launched = NumAgents

FailedRuns == {i \in Agents : runOutcome[i].state = "threw"}

Placeholders == {i \in Agents : reports[i].kind \in {"error", "crash"}}

RealTexts == {i \in Agents : runOutcome[i].state = "returned"
                             /\ reports[i] = runOutcome[i].value}

(* C1: once the agents were launched and execute has ended, there are      *)
(* exactly NumAgents reports, the placeholders are exactly the reports of  *)
(* the agents whose run failed, every other report is the text the agent's *)
(* run returned, and exactly one synthesis call was made.                  *)
C1_ReportsPerAgent ==
  EndedAfterFanOut =>
    /\ Len(reports) = NumAgents
    /\ Placeholders = FailedRuns
    /\ RealTexts = Agents \ FailedRuns
    /\ synthCalls = 1

(* C2: execute never rejects because agents failed.  A run whose agents    *)
(* were launched ends only through the synthesis step: it made exactly one *)
(* synthesis call, it is rejected only with the transport error that call  *)
(* threw or with the validation error of its response, and it is resolved  *)
(* only with a value, however many agents failed.  (A run that the first   *)
(* emission rejected launched no agent, so none of its agents failed.)     *)
C2_AgentFailureNeverRejects ==
  EndedAfterFanOut =>
    /\ synthCalls = 1
    /\ call[SynthCall].pc \in {"returned", "thrown"}
    /\ execPc = "rejected" =>
         execResult.kind = IF call[SynthCall].pc = "thrown"
                             THEN "transportError" ELSE "validationError"
    /\ execPc = "resolved" => execResult.kind = "value"

C2_Witness ==
  /\ execPc = "resolved"
  /\ \A i \in Agents : runOutcome[i].state = "threw" /\ agentStates[i].status = "FAILED"

(* C3: the synthesis request is issued at most once, a run that ended      *)
(* after the fan-out issued it, and whenever it has been issued every      *)
(* AgentState is COMPLETED or FAILED and no agent call is in progress.     *)
C3_SynthesisAfterAllSettled ==
  /\ synthCalls <= 1
  /\ EndedAfterFanOut => synthCalls = 1
  /\ synthCalls = 1 =>
       \A i \in Agents :
          /\ agentStates[i].status \in {"COMPLETED", "FAILED"}
          /\ call[i].pc = "idle"

(* C4: after execute resolved, or rejected with a validation error or a    *)
(* transport error, no AgentState is PENDING or RUNNING.                   *)
C4_NoAgentLeftRunning ==
  execResult.kind \in {"value", "validationError", "transportError"} =>
    \A i \in Agents : agentStates[i].status \notin {"PENDING", "RUNNING"}

StatusEdges ==
  { <<"PENDING", "RUNNING">>, <<"RUNNING", "COMPLETED">>, <<"RUNNING", "FAILED">> }

(* C5: every change of an AgentState's status follows PENDING -> RUNNING,  *)
(* RUNNING -> COMPLETED or RUNNING -> FAILED; COMPLETED and FAILED never   *)
(* change.                                                                 *)
C5_StatusMonotonic ==
  [][ agentStates # <<>> =>
        \A i \in Agents :
           agentStates'[i].status # agentStates[i].status =>
             <<agentStates[i].status, agentStates'[i].status>> \in StatusEdges ]_vars

(***************************************************************************)
(* Properties of LLMClient.generateContentWithRetry, on a direct call      *)
(***************************************************************************)
Direct == call[DirectCall]

MaxRetries == IF argRetries = NoArg THEN DefaultRetries ELSE argRetries

InitialDelay == IF argDelay = NoArg THEN DefaultDelay ELSE argDelay

RECURSIVE Pow2(_)
Pow2(n) == IF n = 0 THEN 1 ELSE 2 * Pow2(n - 1)

(* C6: when the first attempt fails with status 400 or 403 the call throws *)
(* that very error at once: one attempt, no wait, no retry warning,        *)
(* whatever maxRetries is.                                                 *)
C6_FatalFirstAttempt ==
  [][ \A k \in ErrorKinds :
        ( /\ ErrStatus(k) \in {400, 403}
          /\ Direct.pc = "attempting" /\ Direct.attempts = 1
          /\ DirectError(k) )
        => /\ call'[DirectCall].pc = "thrown"
           /\ call'[DirectCall].err = MkErr(k, 1)
           /\ call'[DirectCall].attempts = 1
           /\ call'[DirectCall].waits = <<>>
           /\ call'[DirectCall].warnings = 0 ]_vars

C6_Witness ==
  /\ Direct.pc = "thrown" /\ Direct.attempts = 1
  /\ Direct.err.status = 403 /\ Direct.err.at = 1
  /\ MaxRetries = MaxRetriesArg /\ Direct.retries = MaxRetriesArg

TransientByStatus(k) ==
  ErrStatus(k) = 429 \/ ErrStatus(k) \in 500..599 \/ ErrStatus(k) = 0

RetryStep(k) ==
  /\ call'[DirectCall].pc = "waiting"
  /\ call'[DirectCall].waits = Append(Direct.waits, Direct.delay)
  /\ call'[DirectCall].retries = Direct.retries
  /\ call'[DirectCall].delay = Direct.delay

TimerStep ==
  (Direct.pc = "waiting" /\ call'[DirectCall] # Direct)
  => /\ call'[DirectCall].pc = "attempting"
     /\ call'[DirectCall].attempts = Direct.attempts + 1
     /\ call'[DirectCall].delay = 2 * Direct.delay
     /\ call'[DirectCall].retries = Direct.retries - 1

C8_BackoffSchedule ==
  Direct.pc = "returned" =>
    /\ Direct.attempts = Len(Direct.waits) + 1
    /\ Len(Direct.waits) <= MaxRetries
    /\ \A j \in 1..Len(Direct.waits) :
         Direct.waits[j] = InitialDelay * Pow2(j - 1)

C8_Witness ==
  /\ Direct.pc = "returned" /\ Direct.attempts = 3
  /\ MaxRetries = 3 /\ InitialDelay = 500
  /\ Direct.waits = <<500, 1000>>

WellFormedResearch(v) == v.fields = ResearchFields /\ v.typed

MalformedSynthTexts ==
  { <<"not json">>, <<>>, <<"{partial}">>,
    FenceJson \o <<"{badtypes}">> \o Fence }

(* C10: a synthesis response whose text does not parse or does not satisfy *)
(* the schema ("not json", no text, missing fields, ill-typed fields)      *)
(* rejects execute with the validation error and no value; every value     *)
(* execute resolves with is a well-formed research object accepted by the  *)
(* schema.                                                                 *)
C10_ValidatedOrRejected ==
  /\ execPc = "resolved" =>
       /\ execResult.kind = "value"
       /\ WellFormedResearch(execResult.value)
       /\ synthText \notin MalformedSynthTexts
  /\ (call[SynthCall].pc = "returned" /\ synthText \in MalformedSynthTexts) =>
       /\ execPc = "rejected"
       /\ execResult.kind = "validationError"
       /\ execResult.value = NoValue

C10_Witness ==
  /\ execPc = "rejected"
  /\ call[SynthCall].pc = "returned"
  /\ synthText = <<"not json">>
  /\ execResult.kind = "validationError"

(***************************************************************************)
(* Properties of the synthesis request                                     *)
(***************************************************************************)
(* the report the coordinator is to hold for agent i, given what its run   *)
(* did: the text the run returned, or the error placeholder with its name  *)
ReportOfOutcome(i) ==
  IF runOutcome[i].state = "returned"
    THEN runOutcome[i].value
    ELSE ErrorPlaceholder(AgentName(i))

(* C12: once the synthesis request is issued, its dossier holds the        *)
(* NumAgents reports under the labels of the agent list, in that order,    *)
(* and the report of each section is determined by the outcome of that     *)
(* agent's run alone (its text or its failure), so that runs with the same *)
(* outcomes issue the same request whatever the order of completion.       *)
C12_RequestDeterminedByOutcomes ==
  synthCalls = 1 =>
    /\ Len(RawForensicData(reports)) = NumAgents
    /\ \A i \in Agents :
         /\ RawForensicData(reports)[i].label = SectionLabel(i)
         /\ RawForensicData(reports)[i].report = ReportOfOutcome(i)

(* C13: an agent whose run failed ends FAILED; once the reports are built, *)
(* the report at its index is the error placeholder carrying its name and  *)
(* the report of every agent whose run returned is the text it returned;   *)
(* when the synthesis response then parses and validates, execute resolves *)
(* with the validated value.                                               *)
C13_FailedAgentPlaceholder ==
  \A i \in FailedRuns :
    /\ agentStates[i].status = "FAILED"
    /\ synthCalls = 1 =>
         /\ reports[i] = ErrorPlaceholder(AgentName(i))
         /\ \A j \in Agents \ {i} :
              runOutcome[j].state = "returned" => reports[j] = runOutcome[j].value
    /\ (call[SynthCall].pc = "returned" /\ synthText \notin MalformedSynthTexts) =>
         /\ execPc = "resolved"
         /\ execResult.kind = "value"
         /\ WellFormedResearch(execResult.value)

RECURSIVE SumSeq(_)
SumSeq(q) == IF q = <<>> THEN 0 ELSE Head(q) + SumSeq(Tail(q))

(* the response that ends agent 2's call arrives at its fourth attempt,    *)
(* after three failures that were retried                                  *)
SucceedsAfterThreeFailures ==
  /\ call[2].pc = "attempting" /\ call[2].attempts = 4
  /\ ErrStatus(call[2].err) = 429
  /\ runOutcome[2].state = "pending" /\ runOutcome'[2].state = "returned"

(* C14: when agent 2's request fails with 429 three times and succeeds at  *)
(* the fourth attempt, the waits before the success were initialDelay,     *)
(* 2 * initialDelay and 4 * initialDelay (7 * initialDelay in all), the    *)
(* agent is COMPLETED and its task is fulfilled with the text its run      *)
(* returned, which is no placeholder: the coordinator saw no failure.      *)
C14_RetriesInvisibleToCoordinator ==
  [][ SucceedsAfterThreeFailures =>
        /\ call[2].waits = <<DefaultDelay, 2 * DefaultDelay, 4 * DefaultDelay>>
        /\ SumSeq(call[2].waits) = 7 * DefaultDelay
        /\ agentStates'[2].status = "COMPLETED"
        /\ task'[2] = [pc |-> "fulfilled", value |-> runOutcome'[2].value]
        /\ runOutcome'[2].value.kind \in {"text", "nodata"} ]_vars

(***************************************************************************)
(* Properties of the parse step                                            *)
(***************************************************************************)
Parsed == call[SynthCall].pc = "returned"

(* a response that is valid JSON matching the schema resolves execute with *)
(* the object JSON.parse gives for that very text                          *)
ParsedObjectReturned ==
  (Parsed /\ synthText \in ValidJsonTexts) =>
    /\ execPc = "resolved"
    /\ execResult.kind = "value"
    /\ execResult.value = JsonParse(synthText)

(* the fenced form of a content gives the result of the bare content *)
FencedSameAsBare ==
  \A t \in ValidJsonTexts :
    (Parsed /\ synthText = Fenced(t)) =>
      execResult = ParseAndValidate(SynthTextOrDefault([text |-> t]))

(* stripping the fences of a stripped text changes nothing *)
StrippingIdempotent ==
  Parsed => CleanText(CleanText(synthText)) = CleanText(synthText)

(* C11: round trip of the parse step: a response text that is valid JSON   *)
(* matching the schema makes execute return the object that text parses    *)
(* to; the same content inside a markdown json code block gives the        *)
(* identical result; stripping the fences twice equals stripping once.     *)
C11_RoundTrip == ParsedObjectReturned /\ FencedSameAsBare /\ StrippingIdempotent

(***************************************************************************)
(* Properties of the two structured-output stages                          *)
(***************************************************************************)
(* an error as the client throws it: an error of the service, unchanged    *)
IsTransportError(e) ==
  \E k \in ErrorKinds, n \in 1..(DefaultRetries + 1) : e = MkErr(k, n)

(* the stage an error's message names *)
StageNamed(e) ==
  IF Includes(e.msg, "research") THEN "synthesis"
  ELSE IF Includes(e.msg, "draft") THEN "draft"
  ELSE "none"

WellFormedBook(v) == v.fields = BookFields /\ v.typed

(* what the caller of a stage holds once the stage has ended: pc, result   *)
(* and call are those of execute or those of generateDraft                 *)
StageOutcomeOk(pc, result, c, stage) ==
  /\ (pc = "rejected" /\ c.pc = "returned") =>
       /\ result.kind = "validationError"
       /\ result.value = NoValue
       /\ StageNamed(result.err) = stage
       /\ ~IsTransportError(result.err)
  /\ (pc = "rejected" /\ c.pc = "thrown") =>
       /\ result.kind = "transportError"
       /\ result.value = NoValue
       /\ result.err = c.err /\ IsTransportError(result.err)
  /\ pc = "resolved" => (result.kind = "value" /\ result.err = NoErr)

DraftEnded == draftPc \in {"resolved", "rejected"}

(* C16: generateDraft issues exactly one request through the client; once  *)
(* it has resolved or rejected (a response that does not parse or          *)
(* validate included) it issues no further request and makes no further    *)
(* attempt; every value it resolves with is what BookSchema.parse returned *)
(* for the parsed response text.                                           *)
C16_OneRequestNoRetry ==
  /\ [](/\ draftCalls <= 1
        /\ draftPc # "idle" => draftCalls = 1
        /\ draftPc = "resolved" =>
             /\ draftResult.kind = "value"
             /\ BookSchemaAccepts(ParseJsonFromLLM(DraftTextOrDefault([text |-> draftText])))
             /\ draftResult.value =
                  BookSchemaParse(ParseJsonFromLLM(DraftTextOrDefault([text |-> draftText])))
        /\ (draftPc = "rejected" /\ call[DraftCall].pc = "returned") =>
             ~( /\ ~ParseJsonFromLLMThrows(DraftTextOrDefault([text |-> draftText]))
                /\ BookSchemaAccepts(ParseJsonFromLLM(DraftTextOrDefault([text |-> draftText]))) ))
  /\ [][ DraftEnded =>
           /\ draftCalls' = draftCalls
           /\ call'[DraftCall] = call[DraftCall]
           /\ draftPc' = draftPc /\ draftResult' = draftResult ]_vars

C16_Witness ==
  /\ draftPc = "rejected" /\ call[DraftCall].pc = "returned"
  /\ draftText = <<"not json">>
  /\ draftCalls = 1 /\ call[DraftCall].attempts = 1

(***************************************************************************)
(* Properties of concurrent calls through the shared client                *)
(***************************************************************************)
InProgress(c) == c.pc \in {"attempting", "waiting"}

(* the retries and the delay of a call in progress are those its own       *)
(* failed attempts leave it with                                           *)
OwnBudget(c) ==
  /\ c.retries = DefaultRetries - (c.attempts - 1)
  /\ c.delay = DefaultDelay * Pow2(c.attempts - 1)
  /\ c.warnings = IF c.pc = "waiting" THEN c.attempts ELSE c.attempts - 1
  /\ Len(c.waits) = c.warnings

(* C17: calls in progress at the same time do not interfere.  At every     *)
(* moment the remaining retries and the delay of each call are determined  *)
(* by that call's own failed attempts; a step changes the record of one    *)
(* call at most, and the retries and the delay of a call in progress       *)
(* change only when its own timer fires after its own failure.             *)
C17_CallsIndependent ==
  /\ [](\A j \in CallIds : InProgress(call[j]) => OwnBudget(call[j]))
  /\ [][ \A j \in CallIds :
           /\ call'[j] # call[j] => \A k \in CallIds \ {j} : call'[k] = call[k]
           /\ ( /\ InProgress(call[j]) /\ InProgress(call'[j])
                /\ <<call'[j].retries, call'[j].delay>> # <<call[j].retries, call[j].delay>> )
              => /\ call[j].pc = "waiting" /\ call[j].err.at = call[j].attempts
                 /\ call'[j] = OnTimer(call[j]) ]_vars

C17_Witness ==
  /\ call[1].pc = "attempting" /\ call[1].attempts = 3 /\ call[1].retries = 1
  /\ call[2].pc = "attempting" /\ call[2].attempts = 1 /\ call[2].retries = 3
  /\ call[3].pc = "waiting" /\ call[3].attempts = 2 /\ call[3].delay = 2 * DefaultDelay
  /\ call[4].pc = "waiting" /\ call[4].attempts = 1 /\ call[4].delay = DefaultDelay

(***************************************************************************)
(* Properties of the singleton                                             *)
(***************************************************************************)
(* C18: however many times and in whatever order getInstance is called,    *)
(* at most one LLMClient is constructed, every call returns that one       *)
(* instance (the one every earlier call returned), and every getClient     *)
(* returns the one client that instance was constructed with.              *)
C18_SingleInstance ==
  /\ [](/\ constructed <= 1
        /\ \A h \in Holders :
             /\ llmOf[h] # NoInstance => (llmOf[h] = instance /\ instance.id = 1)
             /\ clientOf[h] # 0 => clientOf[h] = instance.client)
  /\ [][ \A h \in Holders :
           /\ llmOf'[h] # llmOf[h] =>
                /\ llmOf[h] = NoInstance
                /\ \A g \in Holders : llmOf[g] # NoInstance => llmOf'[h] = llmOf[g]
           /\ (clientOf[h] # 0) => clientOf'[h] = clientOf[h] ]_vars

C18_Witness ==
  /\ constructed = 1
  /\ \A h \in Holders : llmOf[h] = instance /\ clientOf[h] = instance.client
  /\ instance # NoInstance

(***************************************************************************)
(* Properties of a call made without retry arguments                       *)
(***************************************************************************)
NoRetryArguments == argRetries = NoArg /\ argDelay = NoArg

(* C19: a call made without retry arguments has 3 retries and a first      *)
(* delay of 2000: it makes at most 4 attempts, and the waits between them  *)
(* are 2000, 4000 and 8000, in this order.                                 *)
C19_DefaultArguments ==
  (NoRetryArguments /\ Direct.pc # "idle") =>
    /\ Direct.attempts <= 4
    /\ Direct.retries + (Direct.attempts - 1) = 3
    /\ Len(Direct.waits) <= 3
    /\ \A j \in 1..Len(Direct.waits) : Direct.waits[j] = <<2000, 4000, 8000>>[j]
    /\ Direct.pc = "attempting" => Direct.delay = 2000 * Pow2(Direct.attempts - 1)

C19_Witness ==
  /\ NoRetryArguments
  /\ Direct.pc = "thrown" /\ Direct.attempts = 4
  /\ Direct.waits = <<2000, 4000, 8000>>

(***************************************************************************)
(* Properties of BaseAgent.executeSearch                                   *)
(***************************************************************************)
(* C20: when the response of an agent's request arrives, the agent's run   *)
(* returns (it does not throw); what it returns is the text of the         *)
(* response when there is one, and otherwise the no-data placeholder       *)
(* carrying that agent's name.                                             *)
C20_TextOrNoData ==
  [][ \A i \in Agents, t \in AgentTexts, cb \in BOOLEAN :
        AgentResponse(i, t, cb) =>
          /\ runOutcome'[i].state = "returned"
          /\ t # <<>> => runOutcome'[i].value = [kind |-> "text", who |-> "", body |-> t]
          /\ t = <<>> =>
               runOutcome'[i].value = [kind |-> "nodata", who |-> AgentName(i), body |-> <<>>] ]_vars

C20_Witness ==
  /\ runOutcome[1].state = "returned"
  /\ runOutcome[1].value = TextReport(<<"findings">>)
  /\ runOutcome[3].state = "returned"
  /\ runOutcome[3].value = NoDataReport("Insider")

(***************************************************************************)
(* Properties of the agent layer under client errors                       *)
(***************************************************************************)
(* the client throws the error e of the attempt in progress of call c *)
ClientThrows(c, e) == OnFailure(c, e).pc = "thrown"

(* C21: agents do not catch the client's errors.  Whenever the client      *)
(* throws inside an agent's run (fatal error, or retries exhausted), the   *)
(* run rejects, it returns no text of its own, and the error that reaches  *)
(* the coordinator's catch block is the very error the client threw; it is *)
(* the coordinator that marks the agent FAILED and supplies the            *)
(* placeholder found at the agent's index.                                 *)
C21_AgentsNeverCatch ==
  /\ [][ \A i \in Agents, k \in ErrorKinds, cb \in BOOLEAN :
           ( /\ call[i].pc = "attempting"
             /\ ClientThrows(call[i], MkErr(k, call[i].attempts))
             /\ AgentErrorTraced(i, k, cb) )
           => /\ runOutcome'[i] = [state |-> "threw", value |-> NoReport]
              /\ caught'[i] = MkErr(k, call[i].attempts)
              /\ agentStates'[i].status = "FAILED"
              /\ task'[i] = CatchBlock(i, cb) ]_vars
  /\ [](\A i \in Agents :
          /\ runOutcome[i].state = "threw" <=> caught[i] # NoErr
          /\ (runOutcome[i].state = "threw" /\ synthCalls = 1) =>
               reports[i] \in {ErrorPlaceholder(AgentName(i)), CrashReport(AgentName(i))})

C21_Witness ==
  \E i \in Agents :
    /\ runOutcome[i].state = "threw"
    /\ caught[i].status = 429 /\ caught[i].at = DefaultRetries + 1
    /\ synthCalls = 1
    /\ reports[i] = ErrorPlaceholder(AgentName(i))

(***************************************************************************)
(* Properties of the onProgress calls                                      *)
(***************************************************************************)
Emitted == emitCount' = emitCount + 1

StatusStep(i, from, to) ==
  /\ agentStates # <<>>
  /\ agentStates[i].status = from /\ agentStates'[i].status = to

(* C22: the first onProgress call of a run shows one state per agent, with *)
(* the agent's name, all PENDING; the launch of an agent sets it RUNNING   *)
(* and calls onProgress at once with an array that shows it RUNNING, while *)
(* that agent's request has not been issued yet.                           *)
C22_FirstEmissions ==
  /\ [](emitCount = 1 =>
          /\ Len(lastEmitted) = NumAgents
          /\ \A i \in Agents :
               lastEmitted[i] = [name |-> AgentName(i), status |-> "PENDING"])
  /\ [][ \A i \in Agents :
           StatusStep(i, "PENDING", "RUNNING") =>
             /\ Emitted
             /\ lastEmitted'[i].status = "RUNNING"
             /\ call[i].pc = "idle" /\ runOutcome[i].state = "none" ]_vars

C22_Witness ==
  /\ emitCount = 3
  /\ lastEmitted[2].status = "RUNNING" /\ lastEmitted[3].status = "PENDING"
  /\ call[2].pc = "attempting" /\ call[3].pc = "idle"

SynthesisCompletes ==
  execPc = "synthesizing" /\ execPc' \in {"resolved", "rejected"}

EmitsOnAgentSteps ==
  \A i \in Agents :
    /\ StatusStep(i, "PENDING", "RUNNING") => Emitted
    /\ StatusStep(i, "RUNNING", "COMPLETED") => Emitted
    /\ StatusStep(i, "RUNNING", "FAILED") => Emitted
    /\ StatusStep(i, "COMPLETED", "FAILED") => Emitted

(* C23: onProgress is called when an agent starts, when it completes, when *)
(* it fails, and when the synthesis completes.                             *)
C23_EmitsAtSynthesis ==
  [][ /\ EmitsOnAgentSteps
      /\ SynthesisCompletes => Emitted ]_vars

(***************************************************************************)
(* Concurrency of the agent tasks                                          *)
(***************************************************************************)
SomeAgentSettled ==
  /\ agentStates # <<>>
  /\ \E i \in Agents : agentStates[i].status \in {"COMPLETED", "FAILED"}

(* C24: the agents are launched without waiting for each other: whenever   *)
(* some agent is COMPLETED or FAILED, every agent has become RUNNING and    *)
(* has issued its request.                                                 *)
C24_AllLaunchedBeforeAnySettles ==
  SomeAgentSettled =>
    \A j \in Agents :
      /\ agentStates[j].status # "PENDING"
      /\ runOutcome[j].state # "none"

BecomesFailed(i) ==
  /\ agentStates # <<>>
  /\ agentStates[i].status # "FAILED" /\ agentStates'[i].status = "FAILED"

(* C25: the failure of an agent changes nothing of another agent's call,   *)
(* task or state; and in a run where some agent's call failed, once all    *)
(* tasks are joined every agent is COMPLETED with the text its own call    *)
(* returned as its report, or FAILED with its own error placeholder as its *)
(* report, according to the outcome of its own call.                       *)
C25_SettleAll ==
  /\ [][ \A i \in Agents : BecomesFailed(i) =>
           \A j \in Agents \ {i} :
             /\ call'[j] = call[j] /\ task'[j] = task[j]
             /\ runOutcome'[j] = runOutcome[j]
             /\ agentStates'[j] = agentStates[j] ]_vars
  /\ []((synthCalls = 1 /\ FailedRuns # {}) =>
          \A j \in Agents :
            /\ runOutcome[j].state \in {"returned", "threw"}
            /\ runOutcome[j].state = "returned" =>
                 /\ agentStates[j].status = "COMPLETED"
                 /\ reports[j] = runOutcome[j].value
            /\ runOutcome[j].state = "threw" =>
                 /\ agentStates[j].status = "FAILED"
                 /\ reports[j] = ErrorPlaceholder(AgentName(j)))

(* C26: a task writes the state at its own index only: a step changes the  *)
(* status of one agent at most, and no step after the states are built     *)
(* changes an agent's name or the number of states.                        *)
C26_OwnIndexOnly ==
  [][ agentStates # <<>> =>
        /\ Len(agentStates') = Len(agentStates)
        /\ \A i \in Agents : agentStates'[i].name = agentStates[i].name
        /\ \A i, j \in Agents :
             (i # j /\ agentStates'[i].status # agentStates[i].status) =>
               agentStates'[j].status = agentStates[j].status ]_vars

C26_Witness ==
  /\ agentStates # <<>>
  /\ agentStates[1].status = "FAILED" /\ agentStates[2].status = "COMPLETED"
  /\ agentStates[3].status = "RUNNING" /\ task[3].pc = "awaitingRun"
  /\ agentStates[4].status = "COMPLETED"
  /\ \A i \in Agents : agentStates[i].name = AgentName(i)

(***************************************************************************)
(* Overlapping calls of execute                                            *)
(***************************************************************************)
(* what the onProgress of call r reads in the array it was last given *)
Seen(r) == [i \in 1..Len(delivered[r]) |-> heap[delivered[r][i]]]

RunSteps(r) == runPc'[r] # runPc[r] \/ runTask'[r] # runTask[r]

(* C27: each call of execute builds its own AgentState objects: the arrays *)
(* delivered to two calls hold no object in common, and a step of one call *)
(* changes nothing of what the other call's onProgress was given and reads *)
(* later.                                                                  *)
C27_RunsShareNoState ==
  /\ [](\A r \in Runs : \A s \in Runs \ {r} :
          \A i \in 1..Len(delivered[r]), j \in 1..Len(delivered[s]) :
            delivered[r][i] # delivered[s][j])
  /\ [][ \A r \in Runs : RunSteps(r) =>
           \A s \in Runs \ {r} : Seen(s)' = Seen(s) ]_vars

C27_Witness ==
  /\ runPc["first"] = "awaiting" /\ runPc["second"] = "awaiting"
  /\ Len(delivered["first"]) = NumAgents /\ Len(delivered["second"]) = NumAgents
  /\ Seen("first")[1].status = "COMPLETED" /\ Seen("second")[1].status = "FAILED"
  /\ Seen("first")[2].status = "RUNNING" /\ Seen("second")[2].status = "COMPLETED"

(***************************************************************************)
(* Retry warnings and permission messages of generateContentWithRetry      *)
(***************************************************************************)
(* C28: one warning per retry: the warnings of a call number its attempts  *)
(* minus one (while it waits, the attempt announced is still to come); a   *)
(* warning is emitted only on entering the wait of the retry it announces, *)
(* before that wait elapses; the step that throws, for a fatal error or    *)
(* out of retries, and the end of a wait emit none.                        *)
C28_WarningPerRetry ==
  /\ [](Direct.pc # "idle" =>
          /\ Direct.pc \in {"attempting", "returned", "thrown"} =>
               Direct.warnings = Direct.attempts - 1
          /\ Direct.pc = "waiting" =>
               /\ Direct.warnings = Direct.attempts
               /\ Len(Direct.waits) = Direct.warnings)
  /\ [][ /\ call'[DirectCall].warnings # Direct.warnings =>
             /\ call'[DirectCall].warnings = Direct.warnings + 1
             /\ Direct.pc = "attempting" /\ call'[DirectCall].pc = "waiting"
             /\ call'[DirectCall].waits = Append(Direct.waits, Direct.delay)
             /\ ~IsFatal(call'[DirectCall].err) /\ Direct.retries > 0
         /\ (Direct.pc = "attempting" /\ call'[DirectCall].pc = "thrown") =>
             call'[DirectCall].warnings = Direct.warnings
         /\ (Direct.pc = "waiting" /\ call'[DirectCall].pc = "attempting") =>
             call'[DirectCall].warnings = Direct.warnings ]_vars

C28_Witness ==
  /\ Direct.pc = "thrown" /\ ~IsFatal(Direct.err)
  /\ Direct.attempts = 3 /\ Direct.warnings = 2 /\ Direct.retries = 0

PermissionMessage(k) == Includes(k.msg, "403") \/ Includes(k.msg, "permission")

LengthDirectives ==
  {"Keep chapters short (Nano-sized).", "Write extensive, deep chapters.",
   "Standard chapter length."}

ImageDirectives ==
  {"Include 3-4 visual descriptions per chapter.", "Minimal visuals, text focused.",
   "Include 1-2 visual descriptions per chapter."}

LinesIn(prompt, texts) == {j \in 1..Len(prompt) : prompt[j].text \in texts}

(* C30: the request generateDraft issued holds exactly one length          *)
(* directive and exactly one image directive, whatever the settings:       *)
(* lengthLevel 1 gives the short-chapter directive, 3 the extensive one    *)
(* and 2 the standard one; imageDensity 3 gives the 3-4 visuals directive, *)
(* 1 the minimal-visuals one and 2 the 1-2 visuals one; and there was one  *)
(* request, with one prompt.                                               *)
C30_DirectivesOfSettings ==
  draftPc # "idle" =>
    /\ draftCalls = 1
    /\ Cardinality(LinesIn(draftPrompt, LengthDirectives)) = 1
    /\ Cardinality(LinesIn(draftPrompt, ImageDirectives)) = 1
    /\ \A j \in LinesIn(draftPrompt, LengthDirectives) :
         /\ settings.lengthLevel = 1 => draftPrompt[j].text = "Keep chapters short (Nano-sized)."
         /\ settings.lengthLevel = 2 => draftPrompt[j].text = "Standard chapter length."
         /\ settings.lengthLevel = 3 => draftPrompt[j].text = "Write extensive, deep chapters."
    /\ \A j \in LinesIn(draftPrompt, ImageDirectives) :
         /\ settings.imageDensity = 1 => draftPrompt[j].text = "Minimal visuals, text focused."
         /\ settings.imageDensity = 2 =>
              draftPrompt[j].text = "Include 1-2 visual descriptions per chapter."
         /\ settings.imageDensity = 3 =>
              draftPrompt[j].text = "Include 3-4 visual descriptions per chapter."

C30_Witness ==
  /\ draftPc = "requesting"
  /\ settings.lengthLevel = 1 /\ settings.imageDensity = 3
  /\ \E j \in 1..Len(draftPrompt) :
       /\ draftPrompt[j].text = "Keep chapters short (Nano-sized)."
       /\ draftPrompt[j + 1].text = "Include 3-4 visual descriptions per chapter."

(***************************************************************************)
(* Fatal errors at a retry, and termination of generateContentWithRetry    *)
(***************************************************************************)
(* C31: a failure with status 400 or 403 at a retry attempt (after one or  *)
(* more failures that were retried) is thrown at once, as that very error: *)
(* no wait is added and no retry is used though retries may remain, and a  *)
(* call that has thrown takes no further step.                             *)
C31_FatalAtRetry ==
  [][ /\ \A k \in ErrorKinds :
           ( /\ ErrStatus(k) \in {400, 403}
             /\ Direct.pc = "attempting" /\ Direct.attempts > 1
             /\ DirectError(k) )
           => /\ call'[DirectCall].pc = "thrown"
              /\ call'[DirectCall].err = MkErr(k, Direct.attempts)
              /\ call'[DirectCall].attempts = Direct.attempts
              /\ call'[DirectCall].retries = Direct.retries
              /\ call'[DirectCall].waits = Direct.waits
      /\ Direct.pc = "thrown" => call'[DirectCall] = Direct ]_vars

C31_Witness ==
  /\ Direct.pc = "thrown" /\ Direct.attempts = 2 /\ Direct.retries > 0
  /\ Direct.err.status = 400 /\ Direct.err.at = 2
  /\ Len(Direct.waits) = 1

CallEnded == Direct.pc \in {"returned", "thrown"}

(* C32: a call makes at most maxRetries + 1 attempts and at most           *)
(* maxRetries waits; with maxRetries = 0 it makes one attempt and never    *)
(* waits; and when every attempt completes and every wait elapses, a call  *)
(* that was started returns or throws.                                     *)
C32_Terminates ==
  /\ [](Direct.pc # "idle" =>
          /\ Direct.attempts <= MaxRetries + 1
          /\ Len(Direct.waits) <= MaxRetries
          /\ Direct.retries >= 0
          /\ MaxRetries = 0 =>
               /\ Direct.attempts = 1
               /\ Direct.waits = <<>>
               /\ Direct.pc # "waiting")
  /\ (Direct.pc \in {"attempting", "waiting"} ~> CallEnded)

C32_Witness ==
  /\ MaxRetries = 0
  /\ Direct.pc = "thrown" /\ ~IsFatal(Direct.err)
  /\ Direct.attempts = 1 /\ Direct.waits = <<>>

(***************************************************************************)
(* Invocations of the agents, emissions and reports of one run             *)
(***************************************************************************)
RunInvoked(i) == runOutcome[i].state # "none"

(* C33: in a run of execute the run method of each agent is invoked        *)
(* exactly once: an agent's request is started by its launch only, never   *)
(* again once its run has returned or thrown, and by the time the tasks    *)
(* are joined the run of every agent has been invoked.                     *)
C33_RunInvokedOnce ==
  /\ [][ \A i \in Agents :
           /\ (call[i].pc = "idle" /\ call'[i].pc # "idle") =>
                /\ ~RunInvoked(i) /\ agentStates[i].status = "PENDING"
                /\ call'[i] = StartCall(NoArg, NoArg)
           /\ RunInvoked(i) => RunInvoked(i)'
           /\ runOutcome[i].state \in {"returned", "threw"} =>
                /\ runOutcome'[i].state = runOutcome[i].state
                /\ call'[i].pc = "idle" ]_vars
  /\ [](synthCalls = 1 => \A i \in Agents : RunInvoked(i))

TerminalStatus(st) == st \in {"COMPLETED", "FAILED"}

ThrowingStepOf(i) ==
  \/ Launch(i, TRUE)
  \/ AgentCatch(i, TRUE)
  \/ \E k \in CoordErrorKinds : AgentError(i, k, TRUE)

ReturningStep ==
  \/ NextCallbackReturns
  \/ \E i \in Agents : AgentCatch(i, FALSE)

(* C35: once the reports are built, the report of agent i is the crash     *)
(* report exactly when the task of agent i rejected; a task rejects only   *)
(* in a step where onProgress throws at that task's RUNNING emission or at *)
(* its FAILED emission in the catch block, never in a step where it        *)
(* returns; and while no task has rejected every report is the text the    *)
(* agent returned or the error placeholder with its name.                  *)
C35_CrashReportIffTaskRejects ==
  /\ [](synthCalls = 1 =>
          \A i \in Agents :
            /\ reports[i] = CrashReport(AgentName(i)) <=> task[i].pc = "rejected"
            /\ task[i].pc # "rejected" =>
                 \/ reports[i] = ErrorPlaceholder(AgentName(i))
                 \/ reports[i].kind \in {"text", "nodata"})
  /\ [][ \A i \in Agents :
           (task[i].pc # "rejected" /\ task'[i].pc = "rejected") =>
             /\ ThrowingStepOf(i)
             /\ ~ReturningStep
             /\ agentStates'[i].status \in {"RUNNING", "FAILED"} ]_vars

C35_Witness ==
  /\ synthCalls = 1
  /\ task[1].pc = "rejected" /\ agentStates[1].status = "RUNNING"
  /\ reports[1] = CrashReport(AgentName(1))
  /\ task[2].pc = "rejected" /\ agentStates[2].status = "FAILED"
  /\ reports[2] = CrashReport(AgentName(2))
  /\ reports[3] = ErrorPlaceholder(AgentName(3))
  /\ reports[4].kind = "text"

(* C36: whatever onProgress does, the text an agent's run returned is the  *)
(* report at that agent's index in the synthesis request, and that agent   *)
(* ends COMPLETED.                                                         *)
C36_ReturnedTextKept ==
  synthCalls = 1 =>
    \A i \in Agents :
      runOutcome[i].state = "returned" =>
        /\ RawForensicData(reports)[i].report = runOutcome[i].value
        /\ agentStates[i].status = "COMPLETED"

(***************************************************************************)
(* Snapshots, failure of the synthesis request, termination of execute     *)
(***************************************************************************)
(* C37: a step leaves what the array already delivered to onProgress reads *)
(* as it was: later transitions of the run do not change the statuses of a *)
(* delivered snapshot.                                                     *)
C37_SnapshotsKeepStatuses ==
  [][ \A r \in Runs :
        delivered[r] # <<>> =>
          [i \in 1..Len(delivered[r]) |-> heap'[delivered[r][i]]] = Seen(r) ]_vars

SynthesisThrows ==
  /\ execPc = "synthesizing"
  /\ call[SynthCall].pc = "attempting" /\ call'[SynthCall].pc = "thrown"

(* C38: when the synthesis request throws (fatal error, or out of          *)
(* retries), execute rejects with the error the client threw, the          *)
(* response text is not parsed or validated, onProgress is not called, no  *)
(* AgentState changes, and nothing changes afterwards.                     *)
C38_SynthesisTransportError ==
  [][ /\ SynthesisThrows =>
           /\ execPc' = "rejected"
           /\ execResult'.kind = "transportError"
           /\ execResult'.err = call'[SynthCall].err
           /\ \E k \in CoordErrorKinds :
                execResult'.err = MkErr(k, call[SynthCall].attempts)
           /\ execResult'.err # ValidationFailure
           /\ UNCHANGED <<synthText, agentStates, emitVars, reports, synthCalls>>
      /\ (execPc = "rejected" /\ execResult.kind = "transportError") =>
           UNCHANGED <<execPc, execResult, agentStates, emitVars, synthCalls>> ]_vars

C38_Witness ==
  /\ execPc = "rejected" /\ execResult.kind = "transportError"
  /\ call[SynthCall].pc = "thrown" /\ call[SynthCall].attempts = DefaultRetries + 1
  /\ execResult.err.status = 429 /\ execResult.err.at = DefaultRetries + 1
  /\ agentStates[1].status = "FAILED" /\ agentStates[2].status = "COMPLETED"
  /\ emitCount = 2 * NumAgents + 1

(* C39: when onProgress returns, every request settles and every wait      *)
(* elapses, a run of execute that has begun issues its synthesis request   *)
(* and then resolves or rejects.                                           *)
C39_ExecuteTerminates ==
  /\ (execPc # "idle" ~> synthCalls = 1)
  /\ (execPc # "idle" ~> Ended)
  /\ [](Ended => synthCalls = 1)

C39_Witness ==
  /\ execPc = "resolved" /\ synthCalls = 1
  /\ call[SynthCall].attempts = 2
  /\ agentStates[1].status = "FAILED" /\ agentStates[4].status = "COMPLETED"

(***************************************************************************)
(* Properties of PodcastService.generatePodcast                            *)
(***************************************************************************)
Plan == BuildSegments(podBook, podSettings)

WithoutAudio(segs) == [j \in 1..Len(segs) |-> [segs[j] EXCEPT !.audioData = ""]]

====
